---- MODULE Spec2Model ----
(***************************************************************************)
(* A model of the French-Translation repository: the training/inference    *)
(* runner (src/transformer_runner.py) and the decoding routines of the     *)
(* transformer (src/model.py).                                             *)
(*                                                                         *)
(* Every routine is a small state machine over the variables below; pc is  *)
(* the position of the routine that is running.  Each routine has its own  *)
(* specification (SpecTrain, SpecEpoch, SpecBleu, ...); the variables of   *)
(* the routines that do not run under a specification keep their idle      *)
(* values.                                                                 *)
(*                                                                         *)
(* Floats are modelled by integers where only their order and their sums   *)
(* matter (BLEU values, losses, log-probabilities); float("inf") is Inf.   *)
(***************************************************************************)
EXTENDS Integers, Sequences, FiniteSets, TLC

VARIABLES
    pc,              \* position of the running routine
    n_batches,       \* len(dataloader) of the dataloader being iterated
    \* ---- TransformerRunner.train
    max_epochs,      \* self.max_epochs
    patience,        \* self.patience
    skip_eval,       \* self.opts.skip_eval
    cur_epoch,
    best_bleu,
    num_poor,
    bleu,            \* bleu[0] of the epoch that just ran
    \* ---- TransformerRunner.train_for_epoch
    accum_iter,
    i,               \* index of the next batch of the enumerate loop
    total_loss,
    num_iters,
    grad,            \* batches whose gradient is accumulated in .grad
    applied,         \* one entry per optimizer.step(): the gradient it applied
    sched_steps,     \* number of scheduler.step() calls
    updates,         \* the batches (1-based) after which the update ran
    \* ---- TransformerRunner.compute_average_bleu_over_dataset
    n_gram_levels,
    total_bleu,
    num,
    batch_no,        \* number of batches consumed
    ref_sum,         \* order n -> sum of the scores of every example seen
    ref_count,       \* number of examples seen
    avg_bleu,        \* the returned tuple, as <<numerator, denominator>> pairs
    \* ---- TransformerEncoderDecoder: the inputs of a decoding call
    weights,         \* the model's parameters
    src,             \* the source batch: one value per example
    max_len,
    k,               \* beam width
    tie,             \* how this build of torch.topk orders equal values
    \* ---- TransformerEncoderDecoder.greedy_decode
    seq,             \* the generation so far, one row per example
    out,             \* the tensor a decoding call returns
    \* ---- TransformerEncoderDecoder.pad_generation_sequence
    tgt_generation_in,  \* the tensor passed in (2-D, or 3-D: rows grouped)
    eos_arg,            \* the target_eos argument
    padded,             \* the result of one application
    padded_twice,       \* the result of applying it to its own result
    \* ---- TransformerEncoderDecoder.initialize_beams_for_beam_search, one row
    log_probs,          \* the decoder's log-probabilities after sos
    top_indices,        \* the first tokens of the k beams
    \* ---- TransformerEncoderDecoder.beam_search_decode
    tgt_generation,     \* per active example, its k beams
    seq_log_probs,      \* per active example and beam, the log-prob of each position
    src_x,              \* per active example and beam, the encoder output
    finished_sequences, \* per input example
    finished_scores,    \* per input example
    is_finished,        \* per input example
    cur_sentence_ids,   \* per active example, the input example it is
    cur_batch_size,
    row_of,             \* per active example, the input row its tensors come from
    seen_finished,      \* per input row, the finished candidates retained for it
    best_alive,         \* per input row, its best alive beam after the last step
    compacted,          \* an example left the batch before a later one
    \* ---- TransformerEncoderDecoder.beam_search_decode_slow
    slow_b,             \* b of the loop over the batch
    slow_i,             \* i of the loop over range(1, max_len)
    tgt_generation_b,
    seq_log_probs_b,
    finished_sequences_b,
    finished_scores_b,
    top_beams,
    slow_out,           \* the tensor beam_search_decode_slow returns
    \* ---- the cleaning loops of TransformerRunner.compute_batch_total_bleu
    ref_seq,            \* one row of target_y_ref
    cand_seq,           \* the same row of target_y_cand
    ref_clean,
    cand_clean,
    \* ---- blue_score.py: grouper, n_gram_precision, brevity_penalty, BLEU_score
    reference,
    candidate,
    order,              \* the argument n
    ngrams,             \* what grouper(candidate, n) returns
    p_n,                \* what n_gram_precision returns, as <<cnt, len(c)>>
    bp,                 \* what brevity_penalty returns
    score,              \* what BLEU_score returns
    \* ---- TransformerEncoderDecoder.create_causal_mask
    tokens,
    causal_mask,
    \* ---- utils.py: nan_check, inf_check, nan_inf_check
    checked,            \* the tensor t
    t_name,
    raised_error,       \* the message of the ValueError raised, or <<>>
    printed,            \* what was printed
    \* ---- utils.py: schedule_rate
    step,
    model_size,
    factor,
    warmup,
    rate,               \* the returned learning-rate factor
    \* ---- TransformerRunner.translate
    sentence_tokens,    \* self.dataset.tokenize(input_sentence)
    opt_greedy,         \* self.opts.greedy
    source_tokens,
    translation,        \* the returned string, as the sequence of its pieces
    \* ---- MultiHeadAttention.set_attention_scores
    store_attention_scores,
    training,           \* the mode flag of the module
    attention_scores,   \* the stored snapshot, None if there is none
    attn_call,          \* the last call: its argument and whether it raised
    \* ---- TransformerEncoderLayer / TransformerDecoderLayer.pre_layer_norm_forward
    layer_w,            \* the weights of the sublayers
    layer_x,            \* x
    layer_src_x,        \* src_x, the encoder output the decoder layer attends to
    residual,           \* residual of the decoder layer
    sub_in,             \* the value x had when the current sublayer was entered
    added               \* the value last added back to a sublayer's output

trainVars == <<max_epochs, patience, skip_eval, cur_epoch, best_bleu, num_poor, bleu>>
epochVars == <<accum_iter, i, total_loss, num_iters, grad, applied,
               sched_steps, updates>>
bleuVars  == <<n_gram_levels, total_bleu, num, batch_no, ref_sum, ref_count, avg_bleu>>

callVars   == <<weights, src, max_len, k, tie>>
greedyVars == <<seq, out>>
padVars    == <<tgt_generation_in, eos_arg, padded, padded_twice>>

binitVars  == <<log_probs, top_indices>>
beamVars   == <<tgt_generation, seq_log_probs, src_x, finished_sequences,
                finished_scores, is_finished, cur_sentence_ids, cur_batch_size,
                row_of, seen_finished, best_alive, compacted>>
slowVars   == <<slow_b, slow_i, tgt_generation_b, seq_log_probs_b,
                finished_sequences_b, finished_scores_b, top_beams, slow_out>>

cleanVars  == <<ref_seq, cand_seq, ref_clean, cand_clean>>
scoreVars  == <<reference, candidate, order, ngrams, p_n, bp, score>>
maskVars   == <<tokens, causal_mask>>
checkVars  == <<checked, t_name, raised_error, printed>>
schedVars  == <<step, model_size, factor, warmup, rate>>
translateVars == <<sentence_tokens, opt_greedy, source_tokens, translation>>
attnVars   == <<store_attention_scores, training, attention_scores, attn_call>>
layerVars  == <<layer_w, layer_x, layer_src_x, residual, sub_in, added>>
extraVars  == <<translateVars, attnVars, layerVars>>
pureVars   == <<cleanVars, scoreVars, maskVars, checkVars, schedVars, extraVars>>

runnerVars == <<n_batches, trainVars, epochVars, bleuVars>>
modelVars  == <<callVars, greedyVars, padVars, binitVars, beamVars, slowVars>>

\* the variables of the routines other than the named one
nonTrainVars  == <<epochVars, bleuVars, modelVars, pureVars>>
nonEpochVars  == <<trainVars, bleuVars, modelVars, pureVars>>
nonBleuVars   == <<trainVars, epochVars, modelVars, pureVars>>
nonGreedyVars == <<runnerVars, padVars, binitVars, beamVars, slowVars, pureVars>>
nonPadVars    == <<runnerVars, callVars, greedyVars, binitVars, beamVars, slowVars, pureVars>>
nonBinitVars  == <<runnerVars, greedyVars, padVars, beamVars, slowVars, pureVars>>
nonBeamVars   == <<runnerVars, seq, padVars, binitVars, pureVars>>
nonSlowVars   == <<runnerVars, greedyVars, padVars, binitVars, beamVars, pureVars>>
nonCleanVars  == <<runnerVars, modelVars, scoreVars, maskVars, checkVars, schedVars, extraVars>>
nonScoreVars  == <<runnerVars, modelVars, cleanVars, maskVars, checkVars, schedVars, extraVars>>
nonMaskVars   == <<runnerVars, modelVars, cleanVars, scoreVars, checkVars, schedVars, extraVars>>
nonCheckVars  == <<runnerVars, modelVars, cleanVars, scoreVars, maskVars, schedVars, extraVars>>
nonSchedVars  == <<runnerVars, modelVars, cleanVars, scoreVars, maskVars, checkVars, extraVars>>

vars == <<pc, runnerVars, modelVars, pureVars>>

----------------------------------------------------------------------------
(* Bounds of the model *)

MaxEpochs == 3       \* largest opts.epochs
MaxPatience == 2     \* largest opts.patience
MaxSkip == 1         \* largest opts.skip_eval
MaxBleu == 2         \* validation BLEU takes the values 0..MaxBleu
MaxBatches == 4      \* largest len(dataloader) of a training epoch
MaxAccum == 3        \* largest gradient_accumulation
MaxLoss == 1         \* a batch's loss takes the values 0..MaxLoss
MaxEvalBatches == 2  \* largest len(dataloader) of an evaluation
MaxBatchSize == 2    \* largest number of examples of an evaluation batch
MaxMatch == 4        \* an example matches its reference up to order 0..MaxMatch
VocabSize == 5       \* tgt_vocab_size: the token ids are 0..VocabSize-1
MaxWeight == 1       \* each model parameter takes the values 0..MaxWeight
MaxSrc == 1          \* a source example takes the values 0..MaxSrc
MaxBatch == 2        \* largest batch_size of a decoding call
MaxLen == 4          \* largest max_len of a decoding call
MaxCells == 5        \* largest number of elements of a padded tensor
MaxLogLevel == 3     \* a finite log-probability takes the values -1..-MaxLogLevel
MaxK == 2            \* largest beam width of a beam-search call
MaxRefLen == 4       \* largest length of a row of target_y_ref
MaxCandLen == 1      \* largest length of a row of target_y_cand
MaxSeqLen == 3       \* largest length of a sequence handed to BLEU_score
MaxOrder == 4        \* largest n-gram order n
MaxTensorLen == 3    \* largest number of elements of a checked tensor
MaxStep == 6         \* largest step handed to schedule_rate
MaxWarmup == 4       \* largest warmup
MaxModelSize == 2    \* largest model_size
MaxFactor == 2       \* largest factor
MaxSentence == 2     \* largest number of tokens of a sentence to translate
MaxLayerWeight == 2  \* a sublayer weight is 0..MaxLayerWeight
MaxFeature == 2      \* a feature of the layer input is -MaxFeature..MaxFeature
DModel == 2          \* d_model, the number of features
MaxScores == 2       \* largest number of elements of an attention-score tensor

----------------------------------------------------------------------------
(* Helpers *)

\* float("inf")
Inf == -1

\* a <= b and a < b for an integer a and b an integer or float("inf")
LeqInf(a, b) == IF b = Inf THEN TRUE ELSE a <= b
LtInf(a, b) == IF b = Inf THEN TRUE ELSE a < b

RECURSIVE SumSeq(_)
SumSeq(s) == IF s = <<>> THEN 0 ELSE Head(s) + SumSeq(Tail(s))

\* all sequences over S of length lo..hi
SeqsOf(S, lo, hi) == UNION {[1..n -> S] : n \in lo..hi}

Min(a, b) == IF a <= b THEN a ELSE b

\* a function on 1..n as the tuple of its values
AsSeq(f) == f \o <<>>

\* a function as the table of its values
AsFcn(f) == f @@ <<>>

----------------------------------------------------------------------------
(* Idle values of each routine's variables *)

IdleTrain ==
    /\ max_epochs = 0 /\ patience = 0 /\ skip_eval = 0 /\ cur_epoch = 0
    /\ best_bleu = 0 /\ num_poor = 0 /\ bleu = 0

IdleEpoch ==
    /\ accum_iter = 0 /\ i = 0 /\ total_loss = 0
    /\ num_iters = 0 /\ grad = {} /\ applied = <<>> /\ sched_steps = 0
    /\ updates = <<>>

IdleBleu ==
    /\ n_gram_levels = <<>> /\ total_bleu = <<>> /\ num = 0 /\ batch_no = 0
    /\ ref_sum = <<>> /\ ref_count = 0 /\ avg_bleu = <<>>

IdleRunner == n_batches = 0 /\ IdleTrain /\ IdleEpoch /\ IdleBleu

IdleCall == weights = <<>> /\ src = <<>> /\ max_len = 0 /\ k = 0 /\ tie = "low"

IdleGreedy == seq = <<>> /\ out = <<>>

IdlePad ==
    /\ tgt_generation_in = <<>> /\ eos_arg = 0 /\ padded = <<>>
    /\ padded_twice = <<>>

IdleBinit == log_probs = <<>> /\ top_indices = <<>>

IdleBeam ==
    /\ tgt_generation = <<>> /\ seq_log_probs = <<>> /\ src_x = <<>>
    /\ finished_sequences = <<>> /\ finished_scores = <<>> /\ is_finished = <<>>
    /\ cur_sentence_ids = <<>> /\ cur_batch_size = 0 /\ row_of = <<>>
    /\ seen_finished = <<>> /\ best_alive = <<>> /\ compacted = FALSE

IdleSlow ==
    /\ slow_b = 0 /\ slow_i = 0 /\ tgt_generation_b = <<>> /\ seq_log_probs_b = <<>>
    /\ finished_sequences_b = <<>> /\ finished_scores_b = <<>> /\ top_beams = <<>>
    /\ slow_out = <<>>

IdleModel == IdleCall /\ IdleGreedy /\ IdlePad /\ IdleBinit /\ IdleBeam /\ IdleSlow

IdleClean == ref_seq = <<>> /\ cand_seq = <<>> /\ ref_clean = <<>> /\ cand_clean = <<>>

IdleScore ==
    /\ reference = <<>> /\ candidate = <<>> /\ order = 0 /\ ngrams = <<>>
    /\ p_n = <<>> /\ bp = <<>> /\ score = <<>>

IdleMask == tokens = <<>> /\ causal_mask = <<>>

IdleCheck == checked = <<>> /\ t_name = "" /\ raised_error = <<>> /\ printed = <<>>

IdleSched == step = 0 /\ model_size = 0 /\ factor = 0 /\ warmup = 0 /\ rate = <<>>

IdleTranslate ==
    /\ sentence_tokens = <<>> /\ opt_greedy = FALSE /\ source_tokens = <<>>
    /\ translation = <<>>

IdleAttn ==
    /\ store_attention_scores = FALSE /\ training = FALSE
    /\ attention_scores = <<>> /\ attn_call = <<>>

IdleLayer ==
    /\ layer_w = <<>> /\ layer_x = <<>> /\ layer_src_x = <<>> /\ residual = <<>>
    /\ sub_in = <<>> /\ added = <<>>

IdleExtra == IdleTranslate /\ IdleAttn /\ IdleLayer

IdlePure ==
    IdleClean /\ IdleScore /\ IdleMask /\ IdleCheck /\ IdleSched /\ IdleExtra

----------------------------------------------------------------------------
(* TransformerRunner.__init__ and TransformerRunner.train *)

\* The run-mode fields __init__ derives from opts: a truthy opts.patience
\* gives patience mode, otherwise the epoch budget opts.epochs.
RunModes ==
    {[max_epochs |-> Inf, patience |-> p] : p \in 1..MaxPatience}
    \cup {[max_epochs |-> e, patience |-> Inf] : e \in 0..MaxEpochs}

\* cur_epoch is compared with max_epochs and with skip_eval only; in
\* patience mode max_epochs is infinite and the counter grows without
\* bound, so beyond EpochCap (which is above skip_eval and every epoch
\* budget) it alternates between EpochCap and EpochCap + 1: every
\* comparison of the code has the same outcome and every epoch still
\* changes the counter.
EpochCap == MaxEpochs + MaxSkip + 2

NextEpochNo(e) == IF max_epochs = Inf /\ e > EpochCap THEN EpochCap ELSE e + 1

\* the condition of the while loop of train
TrainLoopCond == LeqInf(cur_epoch, max_epochs) /\ LtInf(num_poor, patience)

\* the early-stopping comparison of train: bleu[0] < best_bleu
PoorEpoch(b, best) == b < best

InitTrain ==
    /\ pc = "train"
    /\ \E m \in RunModes : max_epochs = m.max_epochs /\ patience = m.patience
    /\ skip_eval \in 0..MaxSkip
    /\ cur_epoch = 1
    /\ best_bleu = 0
    /\ num_poor = 0
    /\ bleu = 0
    /\ n_batches = 0
    /\ IdleEpoch /\ IdleBleu /\ IdleModel /\ IdlePure

\* One iteration of the while loop: the training pass, the validation pass
\* (its BLEU at the first level is v; skipped, with the placeholder 0.0,
\* while cur_epoch <= skip_eval) and the early-stopping bookkeeping.
TrainOneEpoch ==
    /\ pc = "train"
    /\ TrainLoopCond
    /\ \E v \in 0..MaxBleu :
          LET b == IF cur_epoch > skip_eval THEN v ELSE 0 IN
          /\ bleu' = b
          /\ IF PoorEpoch(b, best_bleu)
                THEN /\ num_poor' = num_poor + 1
                     /\ best_bleu' = best_bleu
                ELSE /\ num_poor' = 0
                     /\ best_bleu' = b
    /\ cur_epoch' = NextEpochNo(cur_epoch)
    /\ UNCHANGED <<pc, n_batches, max_epochs, patience, skip_eval, nonTrainVars>>

\* The loop condition fails: train prints its message and returns.
TrainReturn ==
    /\ pc = "train"
    /\ ~TrainLoopCond
    /\ pc' = "train_done"
    /\ UNCHANGED <<n_batches, trainVars, nonTrainVars>>

NextTrain == TrainOneEpoch \/ TrainReturn

SpecTrain == InitTrain /\ [][NextTrain]_vars

\* train is one sequential call: it keeps running while it has a step to take
FairSpecTrain == SpecTrain /\ WF_vars(NextTrain)

----------------------------------------------------------------------------
(* TransformerRunner.train_for_epoch *)

\* UpdateDue without the flush at the last batch of the epoch
UpdateDueNoFlush(n, a, len) == n % a = 0

\* the condition of step 7: update after every accum_iter-th batch or at
\* the last batch; n is the 1-based number of the batch just processed
UpdateDue(n, a, len) == (n % a = 0) \/ (n = len)

\* optimizer.step(): applies the accumulated gradient at the current
\* learning-rate step
OptimizerStep(st) ==
    [st EXCEPT !.applied = Append(@, [batches |-> st.grad, lr |-> st.sched_steps])]

\* optimizer.zero_grad()
ZeroGrad(st) == [st EXCEPT !.grad = {}]

\* scheduler.step()
SchedulerStep(st) == [st EXCEPT !.sched_steps = @ + 1]

\* train_step_optimizer_and_scheduler
TrainStepOptimizerAndScheduler(st) == SchedulerStep(ZeroGrad(OptimizerStep(st)))

InitEpoch ==
    /\ pc = "epoch"
    /\ accum_iter \in 1..MaxAccum
    /\ n_batches \in 0..MaxBatches
    /\ i = 0
    /\ total_loss = 0
    /\ num_iters = 0
    /\ grad = {}
    /\ applied = <<>>
    /\ sched_steps = 0
    /\ updates = <<>>
    /\ IdleTrain /\ IdleBleu /\ IdleModel /\ IdlePure

\* One iteration of the for loop over the dataloader: forward, loss,
\* backward (the batch's gradient is added to .grad) and, when due, the
\* update.
TrainBatch ==
    /\ pc = "epoch"
    /\ i < n_batches
    /\ \E loss \in 0..MaxLoss :
          total_loss' = total_loss + loss
    /\ num_iters' = num_iters + 1
    /\ LET st0 == [grad |-> grad \cup {i + 1}, applied |-> applied,
                   sched_steps |-> sched_steps]
           st1 == IF UpdateDue(i + 1, accum_iter, n_batches)
                     THEN TrainStepOptimizerAndScheduler(st0)
                     ELSE st0
       IN  /\ grad' = st1.grad
           /\ applied' = st1.applied
           /\ sched_steps' = st1.sched_steps
           /\ updates' = IF UpdateDue(i + 1, accum_iter, n_batches)
                            THEN Append(updates, i + 1)
                            ELSE updates
    /\ i' = i + 1
    /\ UNCHANGED <<pc, accum_iter, n_batches, nonEpochVars>>

\* return total_loss / num_iters, num_iters: a ZeroDivisionError on an
\* empty dataloader
EpochReturn ==
    /\ pc = "epoch"
    /\ i = n_batches
    /\ pc' = IF num_iters = 0 THEN "epoch_raised" ELSE "epoch_done"
    /\ UNCHANGED <<n_batches, epochVars, nonEpochVars>>

NextEpoch == TrainBatch \/ EpochReturn

SpecEpoch == InitEpoch /\ [][NextEpoch]_vars

----------------------------------------------------------------------------
(* TransformerRunner.compute_batch_total_bleu and                          *)
(* TransformerRunner.compute_average_bleu_over_dataset                     *)

\* the default of the n_gram_levels parameter of both routines
DefaultLevels == <<4, 3>>

\* the n_gram_levels a caller passes to compute_average_bleu_over_dataset
LevelChoices == {DefaultLevels, <<3, 4>>, <<4, 3, 2>>, <<2>>}

\* the n-gram orders a score may be asked at
Orders == {2, 3, 4}

\* An example of an evaluation batch (a reference and its decoded
\* candidate) is the highest order 0..MaxMatch at which the two match.
Examples == 0..MaxMatch

\* bleu_score_func(ref_clean, cand_clean, n): any callable; this one is 0
\* at the orders above the example's match and grows below them.
BleuScoreFunc(ex, n) == IF ex >= n THEN ex - n + 1 ELSE 0

\* the body of the loop over the examples of a batch:
\*     for j, n in enumerate(n_gram_levels): bleu[j] = bleu_score_func(...)
BatchBleuStep(acc, ex, levels) ==
    [j \in 1..Len(levels) |-> BleuScoreFunc(ex, levels[j])]

RECURSIVE BatchBleuLoop(_, _, _)
BatchBleuLoop(acc, batch, levels) ==
    IF batch = <<>> THEN acc
    ELSE BatchBleuLoop(BatchBleuStep(acc, Head(batch), levels), Tail(batch), levels)

\* compute_batch_total_bleu: <<tuple(bleu), batch_size>>
ComputeBatchTotalBleu(batch, levels) ==
    <<BatchBleuLoop([j \in 1..Len(levels) |-> 0], batch, levels), Len(batch)>>

\* the batches a dataloader may yield
EvalBatches == SeqsOf(Examples, 1, MaxBatchSize)

InitBleu ==
    /\ pc = "bleu"
    /\ n_gram_levels \in LevelChoices
    /\ n_batches \in 0..MaxEvalBatches
    /\ total_bleu = [j \in 1..Len(n_gram_levels) |-> 0]
    /\ num = 0
    /\ batch_no = 0
    /\ ref_sum = [n \in Orders |-> 0]
    /\ ref_count = 0
    /\ avg_bleu = <<>>
    /\ IdleTrain /\ IdleEpoch /\ IdleModel /\ IdlePure

\* One iteration of the loop over the dataloader: decode the batch, call
\* compute_batch_total_bleu WITHOUT n_gram_levels (so at DefaultLevels) and
\* add its result to total_bleu; total_bleu[j] raises IndexError when
\* total_bleu is shorter than the batch's tuple.
EvalBatch ==
    /\ pc = "bleu"
    /\ batch_no < n_batches
    /\ \E batch \in EvalBatches :
          LET r == ComputeBatchTotalBleu(batch, DefaultLevels)
              batch_bleu == r[1]
              batch_size == r[2]
              short == Len(total_bleu) < Len(batch_bleu)
          IN  /\ total_bleu' =
                    [j \in 1..Len(total_bleu) |->
                        IF j <= Len(batch_bleu) THEN total_bleu[j] + batch_bleu[j]
                                                ELSE total_bleu[j]]
              /\ num' = IF short THEN num ELSE num + batch_size
              /\ pc' = IF short THEN "bleu_raised" ELSE pc
              /\ ref_sum' = [n \in Orders |->
                                ref_sum[n] + SumSeq([e \in 1..Len(batch) |->
                                                       BleuScoreFunc(batch[e], n)])]
              /\ ref_count' = ref_count + Len(batch)
    /\ batch_no' = batch_no + 1
    /\ UNCHANGED <<n_gram_levels, n_batches, avg_bleu, nonBleuVars>>

\* return tuple(b / num for b in total_bleu): ZeroDivisionError when no
\* example was seen
EvalReturn ==
    /\ pc = "bleu"
    /\ batch_no = n_batches
    /\ IF num = 0 /\ Len(total_bleu) > 0
          THEN pc' = "bleu_raised" /\ avg_bleu' = avg_bleu
          ELSE /\ pc' = "bleu_done"
               /\ avg_bleu' = [j \in 1..Len(total_bleu) |-> <<total_bleu[j], num>>]
    /\ UNCHANGED <<n_gram_levels, n_batches, total_bleu, num, batch_no, ref_sum,
                   ref_count, nonBleuVars>>

NextBleu == EvalBatch \/ EvalReturn

SpecBleu == InitBleu /\ [][NextBleu]_vars

----------------------------------------------------------------------------
(* TransformerEncoderDecoder: vocabulary, decoder, pad_generation_sequence *)

\* the special token ids of the target vocabulary
target_sos == 0
target_eos == 1
padding_idx == 2

Vocab == 0..(VocabSize - 1)

\* an ordinary word of the vocabulary
WordTok == padding_idx + 1

Last(s) == s[Len(s)]

\* (row == eos).any()
HasEos(row, eos) == \E p \in 1..Len(row) : row[p] = eos

\* The model's parameters and the source examples it is given.  The encoder
\* output of an example is the example's value.
WeightSets == [a : 0..MaxWeight, b : 0..MaxWeight]
SrcBatches == SeqsOf(0..MaxSrc, 1, MaxBatch)

\* self.decoder(...)[:, -1, :] for one row: the log-probability of every
\* token after the generated prefix, for the encoder output x.  A
\* deterministic function of the parameters, the source and the whole
\* prefix; the values are the negative integers -1..-VocabSize, all
\* different: the most probable token is x + a * last + b * length modulo
\* the vocabulary size, then the ids below it in turn.
Decoder(w, x, prefix) ==
    [tok \in Vocab |->
        0 - (1 + ((x + w.a * Last(prefix) + w.b * Len(prefix) + VocabSize - tok)
                    % VocabSize))]

\* torch.argmax over the vocabulary
ArgMax(lp) == CHOOSE t \in DOMAIN lp : \A u \in DOMAIN lp : lp[t] >= lp[u]

\* FirstEos without the appended True: a row without eos yields index 0
FirstEosNoSentinel(row, eos) ==
    LET idx == {j \in 0..(Len(row) - 1) : row[j + 1] = eos}
    IN  IF idx = {} THEN 0 ELSE CHOOSE m \in idx : \A j \in idx : m <= j

\* PadMask that also covers the first eos itself (>= for >)
PadMaskFromEos(row, eos) ==
    LET flags == [j \in 0..Len(row) |-> IF j = Len(row) THEN TRUE ELSE row[j + 1] = eos]
        idx == {j \in 0..Len(row) : flags[j]}
        first == CHOOSE m \in idx : \A j \in idx : m <= j
    IN  [p \in 1..Len(row) |-> (p - 1) >= first]

\* pad_generation_sequence on one row (the last dimension).  lengths is
\* the row compared with target_eos with a True appended; the minimum over
\* the True positions of their 0-based index is the first eos (or the row's
\* length); the positions of the mask are those strictly greater.
FirstEos(row, eos) ==
    LET flags == [j \in 0..Len(row) |-> IF j = Len(row) THEN TRUE ELSE row[j + 1] = eos]
        idx == {j \in 0..Len(row) : flags[j]}
    IN  CHOOSE m \in idx : \A j \in idx : m <= j

PadMask(row, eos) ==
    LET lengths == FirstEos(row, eos)
    IN  AsSeq([p \in 1..Len(row) |-> (p - 1) > lengths])

PadRow(row, eos) ==
    LET mask == PadMask(row, eos)
    IN  AsSeq([p \in 1..Len(row) |-> IF mask[p] THEN padding_idx ELSE row[p]])

\* the generation returned as it is, with nothing overwritten
PadGenerationSequenceOmitted(t, eos) == t

\* pad_generation_sequence for a 2-D tensor [batch_size, seq_len] and for a
\* 3-D tensor [batch_size, k * k, seq_len]
PadGenerationSequence(t, eos) == [r \in 1..Len(t) |-> PadRow(t[r], eos)]

PadGenerationSequence3(t, eos) ==
    [b \in 1..Len(t) |-> PadGenerationSequence(t[b], eos)]

\* the token ids of the tensors pad_generation_sequence is tried on
PadTokens == {target_eos, padding_idx, WordTok}

\* the 2-D tensors of at most MaxCells elements: rows of one length
Tensors2(cells) ==
    UNION {[1..r -> [1..l -> PadTokens]] :
              <<r, l>> \in {x \in (1..cells) \X (1..cells) : x[1] * x[2] <= cells}}

\* the 3-D tensors: b groups of g rows of one length
Tensors3(cells) ==
    UNION {[1..x[1] -> [1..x[2] -> [1..x[3] -> PadTokens]]] :
              x \in {y \in (1..cells) \X (1..cells) \X (1..cells) :
                        y[1] * y[2] * y[3] <= cells}}

InitPad ==
    /\ pc = "pad"
    /\ \E d \in {2, 3} :
          tgt_generation_in \in [dims : {d},
                                 t : IF d = 2 THEN Tensors2(MaxCells)
                                              ELSE Tensors3(MaxCells)]
    /\ eos_arg \in {target_eos, padding_idx}
    /\ padded = <<>>
    /\ padded_twice = <<>>
    /\ IdleRunner /\ IdleCall /\ IdleGreedy /\ IdleBinit /\ IdleBeam /\ IdleSlow /\ IdlePure

\* the len(lengths.shape) == 3 branch selects the 3-D broadcasting
PadCall(x, eos) ==
    IF x.dims = 3 THEN [dims |-> 3, t |-> PadGenerationSequence3(x.t, eos)]
                  ELSE [dims |-> 2, t |-> PadGenerationSequence(x.t, eos)]

PadOnce ==
    /\ pc = "pad"
    /\ padded' = PadCall(tgt_generation_in, eos_arg)
    /\ pc' = "pad_once"
    /\ UNCHANGED <<tgt_generation_in, eos_arg, padded_twice, nonPadVars>>

PadTwice ==
    /\ pc = "pad_once"
    /\ padded_twice' = PadCall(padded, eos_arg)
    /\ pc' = "pad_twice"
    /\ UNCHANGED <<tgt_generation_in, eos_arg, padded, nonPadVars>>

NextPad == PadOnce \/ PadTwice

SpecPad == InitPad /\ [][NextPad]_vars

----------------------------------------------------------------------------
(* TransformerEncoderDecoder.greedy_decode *)

\* initialize_generation_sequence: [batch_size, 1] filled with target_sos
InitializeGenerationSequence(source, sos) == [r \in 1..Len(source) |-> <<sos>>]

\* concatenate_generation_sequence
ConcatenateGenerationSequence(gen, next_token) ==
    [r \in 1..Len(gen) |-> Append(gen[r], next_token[r])]

\* AllFinished with the length test off by one (> for >=)
AllFinishedLate(gen, eos, maxlen) ==
    \/ \A r \in 1..Len(gen) : \E p \in 1..Len(gen[r]) : gen[r][p] = eos
    \/ Len(gen[1]) > maxlen

\* all_finished: every row holds eos, or the length reached max_len
AllFinished(gen, eos, maxlen) ==
    \/ \A r \in 1..Len(gen) : \E p \in 1..Len(gen[r]) : gen[r][p] = eos
    \/ Len(gen[1]) >= maxlen

\* the max_len values a decoding call is given
MaxLens == 0..MaxLen

InitGreedy ==
    /\ pc = "greedy"
    /\ weights \in WeightSets
    /\ src \in SrcBatches
    /\ max_len \in MaxLens
    /\ k = 0
    /\ tie = "low"
    /\ seq = InitializeGenerationSequence(src, target_sos)
    /\ out = <<>>
    /\ IdleRunner /\ IdlePad /\ IdleBinit /\ IdleBeam /\ IdleSlow /\ IdlePure

\* one iteration of the while loop: decode, argmax, append
GreedyStep ==
    /\ pc = "greedy"
    /\ ~AllFinished(seq, target_eos, max_len)
    /\ seq' = ConcatenateGenerationSequence(seq,
                 [r \in 1..Len(seq) |-> ArgMax(Decoder(weights, src[r], seq[r]))])
    /\ UNCHANGED <<pc, out, callVars, nonGreedyVars>>

\* return self.pad_generation_sequence(seq, target_eos)
GreedyReturn ==
    /\ pc = "greedy"
    /\ AllFinished(seq, target_eos, max_len)
    /\ out' = PadGenerationSequence(seq, target_eos)
    /\ pc' = "greedy_done"
    /\ UNCHANGED <<seq, callVars, nonGreedyVars>>

NextGreedy == GreedyStep \/ GreedyReturn

SpecGreedy == InitGreedy /\ [][NextGreedy]_vars

----------------------------------------------------------------------------
(* torch.topk and TransformerEncoderDecoder.initialize_beams_for_beam_search *)

\* float('-inf')
NegInf == -1000

\* torch.topk leaves the order of equal values to the build: a build orders
\* them by ascending index ("low") or by descending index ("high").
TiePolicies == {"low", "high"}

\* a comes before b in the descending order of the values s
Precedes(s, t, a, b) ==
    \/ s[a] > s[b]
    \/ s[a] = s[b] /\ (IF t = "low" THEN a < b ELSE a > b)

\* torch.topk(s, n): the indices of the n largest values of s, sorted by
\* descending value (n <= the number of values)
TopKIdx(s, n, t) ==
    LET v == AsFcn(s)
        rank == AsFcn([a \in DOMAIN v |->
                         Cardinality({b \in DOMAIN v : Precedes(v, t, b, a)})])
    IN  AsSeq([p \in 1..n |-> CHOOSE a \in DOMAIN v : rank[a] = p - 1])

\* log_probs[:, :, target_eos] = float('-inf') left out
MaskEosOmitted(lp, eos) == lp

\* log_probs[:, :, target_eos] = float('-inf')
MaskEos(lp, eos) == [lp EXCEPT ![eos] = NegInf]

\* steps 3 and 4 of initialize_beams_for_beam_search on one row
FirstTokens(lp, eos, kk, t) ==
    LET masked == MaskEos(lp, eos)
        idx == TopKIdx(masked, kk, t)
    IN  [top_indices |-> idx, top_probs |-> AsSeq([e \in 1..kk |-> masked[idx[e]]])]

\* the log-probabilities log_softmax gives a token: finite and negative
LogLevels == {0 - l : l \in 1..MaxLogLevel}

InitBinit ==
    /\ pc = "binit"
    /\ log_probs \in [Vocab -> LogLevels]
    /\ k \in 1..(VocabSize + 1)
    /\ tie \in TiePolicies
    /\ top_indices = <<>>
    /\ weights = <<>> /\ src = <<>> /\ max_len = 0
    /\ IdleRunner /\ IdleGreedy /\ IdlePad /\ IdleBeam /\ IdleSlow /\ IdlePure

\* the top-k of the first decoder step; torch.topk raises when k exceeds
\* the vocabulary size
BinitTopK ==
    /\ pc = "binit"
    /\ IF k > VocabSize
          THEN pc' = "binit_raised" /\ top_indices' = top_indices
          ELSE /\ pc' = "binit_done"
               /\ top_indices' = FirstTokens(log_probs, target_eos, k, tie).top_indices
    /\ UNCHANGED <<log_probs, callVars, nonBinitVars>>

NextBinit == BinitTopK

SpecBinit == InitBinit /\ [][NextBinit]_vars

----------------------------------------------------------------------------
(* TransformerEncoderDecoder: the steps of beam search                     *)
(*                                                                         *)
(* The tensors [batch_size * k, ...] are kept as one sequence of k rows    *)
(* per active example; sentence ids and batch positions count from 1.      *)

SeqMax(s) == CHOOSE m \in {s[p] : p \in DOMAIN s} : \A p \in DOMAIN s : s[p] <= m

\* an expansion factor of k
ExpanK(kk) == kk

\* expan = 2 * k
Expan(kk) == 2 * kk

\* torch.index_select(t, 0, idx)
IndexSelect(t, idx) == [p \in 1..Len(idx) |-> t[idx[p]]]

\* expand_encoder_for_beam_search: the encoder output of an example, k times
ExpandEncoderForBeamSearch(source, kk) ==
    [b \in 1..Len(source) |-> [j \in 1..kk |-> source[b]]]

\* initialize_beams_for_beam_search: the k beams <<sos, first token>> of
\* every example and their log-probabilities <<0, log-prob of the token>>
InitializeBeamsForBeamSearch(w, source, sos, eos, kk, t) ==
    LET ft == AsSeq([b \in 1..Len(source) |->
                       FirstTokens(Decoder(w, source[b], <<sos>>), eos, kk, t)])
    IN  [tgt_generation |->
            AsSeq([b \in 1..Len(source) |->
                     AsSeq([j \in 1..kk |-> <<sos, ft[b].top_indices[j]>>])]),
         seq_log_probs |->
            AsSeq([b \in 1..Len(source) |->
                     AsSeq([j \in 1..kk |-> <<0, ft[b].top_probs[j]>>])]),
         src_x |-> ExpandEncoderForBeamSearch(source, kk)]

\* the decoder step and torch.topk(log_probs[:, -1, :], expan) for one
\* beam: its n most probable continuations
ExpandBeam(w, x, toks, lps, n, t) ==
    LET lp == AsFcn(Decoder(w, x, toks))
        pred == TopKIdx(lp, n, t)
    IN  AsSeq([e \in 1..n |->
                  [toks |-> Append(toks, pred[e]), lp |-> Append(lps, lp[pred[e]])]])

\* repeat_and_reshape_for_beam_search and the concatenation of the
\* predictions: the k * expan candidates of one example, beam by beam
RepeatAndReshapeForBeamSearch(w, xs, gens, lps, kk, n, t) ==
    LET rows == AsSeq([j \in 1..kk |-> ExpandBeam(w, xs[j], gens[j], lps[j], n, t)])
    IN  AsSeq([c \in 1..(kk * n) |-> rows[((c - 1) \div n) + 1][((c - 1) % n) + 1]])

\* a score divided by the length of the sequence (scaled to stay an integer)
ScoreSequenceLengthNormalized(toks, lp) ==
    LET tgt_padded == PadRow(toks, padding_idx)
        zeroed == AsSeq([p \in 1..Len(toks) |->
                           IF tgt_padded[p] # padding_idx THEN lp[p] ELSE 0])
    IN  [log_probs |-> zeroed, s |-> (SumSeq(zeroed) * 60) \div Len(toks)]

\* score_sequence_for_beam_search for one row: the log-probabilities with
\* those from the first padding token on set to zero, and their sum
ScoreSequenceForBeamSearch(toks, lp) ==
    LET tgt_padded == PadRow(toks, padding_idx)
        zeroed == AsSeq([p \in 1..Len(toks) |->
                           IF tgt_padded[p] # padding_idx THEN lp[p] ELSE 0])
    IN  [log_probs |-> zeroed, s |-> SumSeq(zeroed)]

\* the scoring of the candidates of one example, torch.topk(scores, expan)
\* and the gather of the top expan candidates; pad_first is the call of
\* pad_generation_sequence that only beam_search_decode_slow makes
SelectTop(cands, n, t, pad_first) ==
    LET row(c) == IF pad_first THEN PadRow(cands[c].toks, target_eos)
                                ELSE cands[c].toks
        scored == AsSeq([c \in 1..Len(cands) |->
                           LET r == ScoreSequenceForBeamSearch(row(c), cands[c].lp)
                           IN  [toks |-> row(c), lp |-> r.log_probs, s |-> r.s]])
        topk == TopKIdx([c \in 1..Len(cands) |-> scored[c].s], n, t)
    IN  AsSeq([e \in 1..n |-> scored[topk[e]]])

\* the split with the finished list cut to k as it was appended to, unsorted
SplitUnsorted(sel, fs, fsc, kk) ==
    LET idxs == [e \in 1..Len(sel) |-> e]
        fin == SelectSeq(idxs, LAMBDA e : HasEos(sel[e].toks, target_eos))
        alive == SelectSeq(idxs, LAMBDA e : ~HasEos(sel[e].toks, target_eos))
        fs1 == fs \o [p \in 1..Len(fin) |-> sel[fin[p]].toks]
        fsc1 == fsc \o [p \in 1..Len(fin) |-> sel[fin[p]].s]
        cut == Min(kk, Len(fsc1))
    IN  [finished_sequences |-> SubSeq(fs1, 1, cut),
         finished_scores |-> SubSeq(fsc1, 1, cut),
         alive_idxs_b |-> alive]

\* the split of the top candidates of one example into finished and alive,
\* and the sort of the finished list (sorted is stable) cut to k
Split(sel, fs, fsc, kk) ==
    LET idxs == [e \in 1..Len(sel) |-> e]
        fin == SelectSeq(idxs, LAMBDA e : HasEos(sel[e].toks, target_eos))
        alive == SelectSeq(idxs, LAMBDA e : ~HasEos(sel[e].toks, target_eos))
        fs1 == fs \o [p \in 1..Len(fin) |-> sel[fin[p]].toks]
        fsc1 == fsc \o [p \in 1..Len(fin) |-> sel[fin[p]].s]
        z == TopKIdx(fsc1, Len(fsc1), "low")
        cut == Min(kk, Len(fsc1))
    IN  [finished_sequences |->
            IF Len(fs1) > 1 THEN [p \in 1..cut |-> fs1[z[p]]] ELSE fs1,
         finished_scores |->
            IF Len(fs1) > 1 THEN [p \in 1..cut |-> fsc1[z[p]]] ELSE fsc1,
         alive_idxs_b |-> alive]

\* scores[b, alive_idxs_b[0]] is read with no alive candidate: IndexError
NoAlive(sp) == Len(sp.finished_sequences) > 0 /\ sp.alive_idxs_b = <<>>

\* has_finished with a tie counted as finished
HasFinishedOrTie(sp, sel) ==
    IF Len(sp.finished_sequences) > 0
       THEN SeqMax(sp.finished_scores) >= sel[sp.alive_idxs_b[1]].s
       ELSE FALSE

\* has_finished: the best finished candidate scores strictly above the
\* best alive one (the elif branch needs an empty list of length k, which
\* no k >= 1 gives)
HasFinished(sp, sel) ==
    IF Len(sp.finished_sequences) > 0
       THEN SeqMax(sp.finished_scores) > sel[sp.alive_idxs_b[1]].s
       ELSE FALSE

\* finalize_beams_for_beam_search: pad every beam to the longest with
\* padding_idx
FinalizeBeamsForBeamSearch(beams) ==
    LET m == SeqMax([r \in 1..Len(beams) |-> Len(beams[r])])
    IN  [r \in 1..Len(beams) |->
            [p \in 1..m |-> IF p <= Len(beams[r]) THEN beams[r][p] ELSE padding_idx]]

----------------------------------------------------------------------------
(* TransformerEncoderDecoder.beam_search_decode *)

\* the beam widths a decoding call is given: expan = 2 * k tokens are taken
\* from the vocabulary at every step
BeamWidths == 1..MaxK

\* cur_sentence_ids kept as it was, cut to the new batch size
SelectSentenceIdsStale(ids, keep) == SubSeq(ids, 1, Len(keep))

\* torch.index_select(cur_sentence_ids, 0, has_not_finished_idxs)
SelectSentenceIds(ids, keep) == IndexSelect(ids, keep)

\* the loop over the active examples b of one step: the finished lists of
\* original_b, has_not_finished_idxs (keep) and alive_idxs
RECURSIVE SplitLoop(_, _, _, _, _)
SplitLoop(b, acc, sels, ids, kk) ==
    IF b > Len(sels) \/ acc.raised
       THEN acc
       ELSE LET original_b == ids[b]
                sp == Split(sels[b], acc.fs[original_b], acc.fsc[original_b], kk)
            IN  IF NoAlive(sp)
                   THEN [acc EXCEPT !.raised = TRUE]
                   ELSE LET has_finished == HasFinished(sp, sels[b])
                            alive_k == SubSeq(sp.alive_idxs_b, 1, Min(kk, Len(sp.alive_idxs_b)))
                        IN  SplitLoop(b + 1,
                               [fs |-> [acc.fs EXCEPT ![original_b] = sp.finished_sequences],
                                fsc |-> [acc.fsc EXCEPT ![original_b] = sp.finished_scores],
                                keep |-> IF has_finished THEN acc.keep ELSE Append(acc.keep, b),
                                alive |-> IF has_finished THEN acc.alive ELSE Append(acc.alive, alive_k),
                                raised |-> FALSE],
                               sels, ids, kk)

\* the loop after the while loop: an example with no finished candidate
\* takes row 0 of its k rows (tgt_generation reshaped to [cur_batch_size, k, -1])
RECURSIVE FallbackLoop(_, _, _, _, _)
FallbackLoop(b, fs, gen, ids, kk) ==
    IF b > Len(gen)
       THEN fs
       ELSE LET original_b == ids[b]
                g == IF Len(gen[b]) = kk THEN gen[b][1] ELSE gen[b][1] \o gen[b][2]
            IN  FallbackLoop(b + 1,
                   IF Len(fs[original_b]) = 0
                      THEN [fs EXCEPT ![original_b] = Append(@, g)]
                      ELSE fs,
                   gen, ids, kk)

\* while not all(is_finished) and tgt_generation.shape[-1] < max_len
BeamLoopCond ==
    /\ \E e \in 1..Len(is_finished) : ~is_finished[e]
    /\ Len(tgt_generation[1][1]) < max_len

InitBeam ==
    /\ pc = "beam_call"
    /\ weights \in WeightSets
    /\ src \in SrcBatches
    /\ max_len \in MaxLens
    /\ k \in BeamWidths
    /\ tie \in TiePolicies
    /\ out = <<>>
    /\ seq = <<>>
    /\ IdleRunner /\ IdlePad /\ IdleBinit /\ IdleBeam /\ IdleSlow /\ IdlePure

\* lines 936-958: the initial beams and the bookkeeping lists
BeamStart ==
    /\ pc = "beam_call"
    /\ \E init \in {InitializeBeamsForBeamSearch(weights, src, target_sos, target_eos, k, tie)},
          batch_size \in {Len(src)} :
           /\ tgt_generation' = init.tgt_generation
           /\ seq_log_probs' = init.seq_log_probs
           /\ src_x' = init.src_x
           /\ finished_sequences' = [e \in 1..batch_size |-> <<>>]
           /\ finished_scores' = [e \in 1..batch_size |-> <<>>]
           /\ is_finished' = [e \in 1..batch_size |-> FALSE]
           /\ cur_sentence_ids' = [e \in 1..batch_size |-> e]
           /\ cur_batch_size' = batch_size
           /\ row_of' = [e \in 1..batch_size |-> e]
           /\ seen_finished' = [e \in 1..batch_size |-> {}]
           /\ best_alive' = [e \in 1..batch_size |-> init.tgt_generation[e][1]]
           /\ compacted' = FALSE
    /\ pc' = "beam"
    /\ UNCHANGED <<out, callVars, slowVars, nonBeamVars>>

\* the finished candidates among the top candidates of an example, with
\* their scores
FinishedOf(sel) ==
    {[toks |-> sel[e].toks, s |-> sel[e].s] :
        e \in {d \in 1..Len(sel) : HasEos(sel[d].toks, target_eos)}}

\* the alive candidates among the top candidates of an example
AliveOf(sel) == {e \in 1..Len(sel) : ~HasEos(sel[e].toks, target_eos)}

\* what one iteration of the while loop computes
BeamIteration ==
    LET expan == Expan(k)
        sels == AsSeq([b \in 1..cur_batch_size |->
                   SelectTop(RepeatAndReshapeForBeamSearch(weights, src_x[b],
                                tgt_generation[b], seq_log_probs[b], k, expan, tie),
                             expan, tie, FALSE)])
        r == SplitLoop(1, [fs |-> finished_sequences, fsc |-> finished_scores,
                           keep |-> <<>>, alive |-> <<>>, raised |-> FALSE],
                       sels, cur_sentence_ids, k)
    IN  IF r.raised \/ \E p \in 1..Len(r.alive) : Len(r.alive[p]) < k
           THEN \* no alive candidate to compare with, or fewer than k
                \* alive rows to reshape
                [raised |-> TRUE]
           ELSE [raised |-> FALSE,
                 finished_sequences |-> r.fs,
                 finished_scores |-> r.fsc,
                 keep |-> r.keep,
                 \* the top expan candidates, as they are left by a break
                 top_generation |->
                    AsSeq([b \in 1..cur_batch_size |->
                             AsSeq([e \in 1..expan |-> sels[b][e].toks])]),
                 top_log_probs |->
                    AsSeq([b \in 1..cur_batch_size |->
                             AsSeq([e \in 1..expan |-> sels[b][e].lp])]),
                 \* the examples that go on and their first k alive candidates
                 tgt_generation |->
                    AsSeq([p \in 1..Len(r.keep) |->
                             AsSeq([j \in 1..k |-> sels[r.keep[p]][r.alive[p][j]].toks])]),
                 seq_log_probs |->
                    AsSeq([p \in 1..Len(r.keep) |->
                             AsSeq([j \in 1..k |-> sels[r.keep[p]][r.alive[p][j]].lp])]),
                 src_x |-> AsSeq(IndexSelect(src_x, r.keep)),
                 cur_sentence_ids |-> AsSeq(SelectSentenceIds(cur_sentence_ids, r.keep)),
                 \* per input row: the candidates that finished at this step
                 \* and the best alive candidate
                 seen |->
                    AsSeq([e \in 1..Len(src) |->
                             UNION {FinishedOf(sels[b]) :
                                      b \in {c \in 1..cur_batch_size : row_of[c] = e}}]),
                 best |->
                    AsSeq([e \in 1..Len(src) |->
                             IF \E b \in 1..cur_batch_size :
                                   row_of[b] = e /\ AliveOf(sels[b]) # {}
                                THEN LET b == CHOOSE c \in 1..cur_batch_size : row_of[c] = e
                                         a == CHOOSE d \in AliveOf(sels[b]) :
                                                 \A f \in AliveOf(sels[b]) : d <= f
                                     IN  sels[b][a].toks
                                ELSE best_alive[e]])]

\* one iteration of the while loop
BeamStep ==
    /\ pc = "beam"
    /\ BeamLoopCond
    /\ IF Expan(k) > VocabSize
          THEN \* torch.topk raises: expan exceeds the vocabulary size
               /\ pc' = "beam_raised"
               /\ UNCHANGED beamVars
          ELSE \E r \in {BeamIteration} :
                 IF r.raised
                    THEN /\ pc' = "beam_raised"
                         /\ UNCHANGED beamVars
                    ELSE /\ finished_sequences' = r.finished_sequences
                         /\ finished_scores' = r.finished_scores
                         /\ seen_finished' =
                               [e \in 1..Len(src) |-> seen_finished[e] \cup r.seen[e]]
                         /\ best_alive' = r.best
                         /\ UNCHANGED is_finished
                         /\ IF Len(r.keep) = 0
                               THEN \* break: every active example has finished
                                    /\ tgt_generation' = r.top_generation
                                    /\ seq_log_probs' = r.top_log_probs
                                    /\ pc' = "beam_break"
                                    /\ UNCHANGED <<src_x, cur_sentence_ids, cur_batch_size,
                                                   row_of, compacted>>
                               ELSE /\ tgt_generation' = r.tgt_generation
                                    /\ seq_log_probs' = r.seq_log_probs
                                    /\ src_x' = r.src_x
                                    /\ cur_batch_size' = Len(r.keep)
                                    /\ cur_sentence_ids' = r.cur_sentence_ids
                                    /\ row_of' = [p \in 1..Len(r.keep) |-> row_of[r.keep[p]]]
                                    /\ compacted' =
                                          (compacted \/ \E p \in 1..Len(r.keep) : r.keep[p] # p)
                                    /\ pc' = "beam"
    /\ UNCHANGED <<out, callVars, slowVars, nonBeamVars>>

\* the code after the while loop: the fallback to the top alive beam and
\* finalize_beams_for_beam_search([x[0] for x in finished_sequences])
BeamReturn ==
    /\ \/ pc = "beam_break"
       \/ pc = "beam" /\ ~BeamLoopCond
    /\ \E fs \in {IF \E e \in 1..Len(is_finished) : ~is_finished[e]
                     THEN FallbackLoop(1, finished_sequences, tgt_generation,
                                       cur_sentence_ids, k)
                     ELSE finished_sequences} :
          /\ finished_sequences' = fs
          /\ IF \E e \in 1..Len(fs) : Len(fs[e]) = 0
                THEN \* x[0] of an empty list: IndexError
                     pc' = "beam_raised" /\ out' = out
                ELSE /\ out' = FinalizeBeamsForBeamSearch([e \in 1..Len(fs) |-> fs[e][1]])
                     /\ pc' = "beam_done"
    /\ UNCHANGED <<tgt_generation, seq_log_probs, src_x, finished_scores, is_finished,
                   cur_sentence_ids, cur_batch_size, row_of, seen_finished, best_alive,
                   compacted>>
    /\ UNCHANGED <<callVars, slowVars, nonBeamVars>>

NextBeam == BeamStart \/ BeamStep \/ BeamReturn

SpecBeam == InitBeam /\ [][NextBeam]_vars

----------------------------------------------------------------------------
(* TransformerEncoderDecoder.beam_search_decode_slow, called on the inputs  *)
(* of a beam_search_decode call that has returned                          *)

\* lines 1128-1158: the initial beams, and the slice of example b = 0
SlowStart ==
    /\ pc = "beam_done"
    /\ \E init \in {InitializeBeamsForBeamSearch(weights, src, target_sos, target_eos, k, tie)} :
          /\ tgt_generation_b' = init.tgt_generation[1]
          /\ seq_log_probs_b' = init.seq_log_probs[1]
    /\ slow_b' = 1
    /\ slow_i' = 1
    /\ finished_sequences_b' = <<>>
    /\ finished_scores_b' = <<>>
    /\ top_beams' = <<>>
    /\ pc' = "slow"
    /\ UNCHANGED <<slow_out, callVars, nonSlowVars>>

\* what one iteration of the loop over range(1, max_len) computes
SlowIteration ==
    LET expan == Expan(k)
        src_x_b == ExpandEncoderForBeamSearch(src, k)[slow_b]
        sel == SelectTop(RepeatAndReshapeForBeamSearch(weights, src_x_b, tgt_generation_b,
                            seq_log_probs_b, k, expan, tie),
                         expan, tie, TRUE)
        sp == Split(sel, finished_sequences_b, finished_scores_b, k)
    IN  IF NoAlive(sp)
           THEN [raised |-> TRUE]
           ELSE LET broke == HasFinished(sp, sel)
                    alive_k == SubSeq(sp.alive_idxs_b, 1, Min(k, Len(sp.alive_idxs_b)))
                IN  IF ~broke /\ Len(alive_k) < k
                       THEN \* fewer than k alive rows for the next reshape
                            [raised |-> TRUE]
                       ELSE [raised |-> FALSE,
                             broke |-> broke,
                             finished_sequences |-> sp.finished_sequences,
                             finished_scores |-> sp.finished_scores,
                             tgt_generation_b |->
                                IF broke
                                   THEN AsSeq([e \in 1..expan |-> sel[e].toks])
                                   ELSE AsSeq([j \in 1..k |-> sel[alive_k[j]].toks]),
                             seq_log_probs_b |->
                                IF broke
                                   THEN AsSeq([e \in 1..expan |-> sel[e].lp])
                                   ELSE AsSeq([j \in 1..k |-> sel[alive_k[j]].lp])]

\* one iteration of for i in range(1, max_len)
SlowStep ==
    /\ pc = "slow"
    /\ slow_b <= Len(src)
    /\ slow_i < max_len
    /\ IF Expan(k) > VocabSize
          THEN /\ pc' = "slow_raised"
               /\ UNCHANGED <<slow_i, tgt_generation_b, seq_log_probs_b,
                              finished_sequences_b, finished_scores_b>>
          ELSE \E r \in {SlowIteration} :
                 IF r.raised
                    THEN /\ pc' = "slow_raised"
                         /\ UNCHANGED <<slow_i, tgt_generation_b, seq_log_probs_b,
                                        finished_sequences_b, finished_scores_b>>
                    ELSE /\ finished_sequences_b' = r.finished_sequences
                         /\ finished_scores_b' = r.finished_scores
                         /\ tgt_generation_b' = r.tgt_generation_b
                         /\ seq_log_probs_b' = r.seq_log_probs_b
                         /\ slow_i' = IF r.broke THEN slow_i ELSE slow_i + 1
                         /\ pc' = IF r.broke THEN "slow_break" ELSE "slow"
    /\ UNCHANGED <<slow_b, top_beams, slow_out, callVars, nonSlowVars>>

\* lines 1233-1235 and the next turn of for b in range(batch_size): the
\* example's best finished candidate, or its top alive beam
SlowExampleDone ==
    /\ \/ pc = "slow_break"
       \/ pc = "slow" /\ slow_b <= Len(src) /\ slow_i >= max_len
    /\ top_beams' = Append(top_beams,
                       IF Len(finished_sequences_b) = 0
                          THEN tgt_generation_b[1]
                          ELSE finished_sequences_b[1])
    /\ slow_b' = slow_b + 1
    /\ slow_i' = 1
    /\ finished_sequences_b' = <<>>
    /\ finished_scores_b' = <<>>
    /\ \E init \in {InitializeBeamsForBeamSearch(weights, src, target_sos, target_eos, k, tie)} :
          IF slow_b < Len(src)
             THEN /\ tgt_generation_b' = init.tgt_generation[slow_b + 1]
                  /\ seq_log_probs_b' = init.seq_log_probs[slow_b + 1]
             ELSE UNCHANGED <<tgt_generation_b, seq_log_probs_b>>
    /\ pc' = "slow"
    /\ UNCHANGED <<slow_out, callVars, nonSlowVars>>

\* return self.finalize_beams_for_beam_search(top_beams, ...)
SlowReturn ==
    /\ pc = "slow"
    /\ slow_b > Len(src)
    /\ slow_out' = FinalizeBeamsForBeamSearch(top_beams)
    /\ pc' = "slow_done"
    /\ UNCHANGED <<slow_b, slow_i, tgt_generation_b, seq_log_probs_b, finished_sequences_b,
                   finished_scores_b, top_beams, callVars, nonSlowVars>>

NextSlow == NextBeam \/ SlowStart \/ SlowStep \/ SlowExampleDone \/ SlowReturn

SpecSlow == InitBeam /\ [][NextSlow]_vars

----------------------------------------------------------------------------
(* A decoding call: greedy_decode or beam_search_decode *)

InitDecode == InitGreedy \/ InitBeam

NextDecode == NextGreedy \/ NextBeam

SpecDecode == InitDecode /\ [][NextDecode]_vars

\* the call has returned or raised
DecodeEnded == pc \in {"greedy_done", "beam_done", "beam_raised"}

\* a decoding call keeps running until it returns or raises: nothing
\* suspends or cancels its loop.  This is weak fairness of NextDecode, with
\* ENABLED <<NextDecode>>_vars written as ~DecodeEnded (a step of NextDecode
\* is possible in every state of a call that has not ended)
FairSpecDecode == SpecDecode /\ ([]<>DecodeEnded \/ []<><<NextDecode>>_vars)

----------------------------------------------------------------------------
(* TransformerRunner.compute_batch_total_bleu: the cleaning of one row of   *)
(* the references and of the candidates                                    *)

\* str(token)
Str(token) == ToString(token)

\* the cleaning loop without its break: the special ids are dropped all
\* along the row
RECURSIVE CleanRowNoBreak(_, _, _, _)
CleanRowNoBreak(row, sos, eos, pad) ==
    IF row = <<>>
       THEN <<>>
       ELSE IF Head(row) \notin {sos, eos, pad}
               THEN <<Str(Head(row))>> \o CleanRowNoBreak(Tail(row), sos, eos, pad)
               ELSE CleanRowNoBreak(Tail(row), sos, eos, pad)

\* for token in ref_seq: a token that is none of the special ids is
\* appended as a string; eos ends the loop; sos and pad are passed over
RECURSIVE CleanLoop(_, _, _, _, _)
CleanLoop(row, clean, sos, eos, pad) ==
    IF row = <<>>
       THEN clean
       ELSE LET token == Head(row)
            IN  IF token \notin {sos, eos, pad}
                   THEN CleanLoop(Tail(row), Append(clean, Str(token)), sos, eos, pad)
                   ELSE IF token = eos
                           THEN clean
                           ELSE CleanLoop(Tail(row), clean, sos, eos, pad)

CleanRow(row, sos, eos, pad) == CleanLoop(row, <<>>, sos, eos, pad)

\* the ids of the rows that are cleaned: the special ids and two words
CleanTokens == {target_sos, target_eos, padding_idx, WordTok, WordTok + 1}

InitClean ==
    /\ pc = "clean"
    /\ ref_seq \in SeqsOf(CleanTokens, 0, MaxRefLen)
    /\ cand_seq \in SeqsOf(CleanTokens, 0, MaxCandLen)
    /\ ref_clean = <<>>
    /\ cand_clean = <<>>
    /\ IdleRunner /\ IdleModel /\ IdleScore /\ IdleMask /\ IdleCheck /\ IdleSched /\ IdleExtra

\* lines 477-490 and the arguments handed to bleu_score_func at line 494
CleanRows ==
    /\ pc = "clean"
    /\ ref_clean' = CleanRow(ref_seq, target_sos, target_eos, padding_idx)
    /\ cand_clean' = CleanRow(cand_seq, target_sos, target_eos, padding_idx)
    /\ reference' = ref_clean'
    /\ candidate' = cand_clean'
    /\ pc' = "clean_done"
    /\ UNCHANGED <<ref_seq, cand_seq, order, ngrams, p_n, bp, score, runnerVars,
                   modelVars, maskVars, checkVars, schedVars, extraVars>>

NextClean == CleanRows

SpecClean == InitClean /\ [][NextClean]_vars

----------------------------------------------------------------------------
(* blue_score.py: grouper, n_gram_precision, brevity_penalty, BLEU_score    *)
(*                                                                         *)
(* A precision is the pair <<numerator, denominator>> of the division that *)
(* gives it.  A brevity penalty is num / den, or exp(num / den) when exp   *)
(* is set.  A score is 0.0 (zero set) or bp * p ** (1 / root) * scale.     *)

\* seq[a:b]
Slice(sq, a, b) == SubSeq(sq, a + 1, Min(b, Len(sq)))

\* grouper whose window stops one position early
RECURSIVE GrouperDropLast(_, _)
GrouperDropLast(sq, nn) ==
    IF Len(sq) <= nn THEN <<>> ELSE <<Slice(sq, 0, nn)>> \o GrouperDropLast(Tail(sq), nn)

\* for i in range(len(seq)): break when i + n > len(seq), else append
\* seq[i:i+n]
RECURSIVE GrouperLoop(_, _, _, _)
GrouperLoop(sq, nn, idx, grams) ==
    IF idx >= Len(sq) \/ idx + nn > Len(sq)
       THEN grams
       ELSE GrouperLoop(sq, nn, idx + 1, Append(grams, Slice(sq, idx, idx + nn)))

Grouper(sq, nn) == GrouperLoop(sq, nn, 0, <<>>)

\* for ngram in c: if ngram in ref: cnt += 1
RECURSIVE CountMatches(_, _)
CountMatches(c, ref) ==
    IF c = <<>>
       THEN 0
       ELSE (IF \E j \in 1..Len(ref) : ref[j] = Head(c) THEN 1 ELSE 0)
            + CountMatches(Tail(c), ref)

\* the precision with one added to the count and to the total
NGramPrecisionSmoothed(ref_toks, cand_toks, nn) ==
    LET c == Grouper(cand_toks, nn)
    IN  <<CountMatches(c, Grouper(ref_toks, nn)) + 1, Len(c) + 1>>

\* the precision that counts each different matching n-gram once
NGramPrecisionDistinct(ref_toks, cand_toks, nn) ==
    LET ref == Grouper(ref_toks, nn)
        c == Grouper(cand_toks, nn)
    IN  IF Len(c) = 0
           THEN <<0, 1>>
           ELSE <<Cardinality({c[x] : x \in {y \in 1..Len(c) :
                                     \E j \in 1..Len(ref) : ref[j] = c[y]}}), Len(c)>>

\* n_gram_precision
NGramPrecision(ref_toks, cand_toks, nn) ==
    IF Len(cand_toks) < nn \/ Len(ref_toks) < nn
       THEN <<0, 1>>
       ELSE LET ref == Grouper(ref_toks, nn)
                c == Grouper(cand_toks, nn)
            IN  IF Len(c) = 0
                   THEN <<0, 1>>
                   ELSE <<CountMatches(c, ref), Len(c)>>

\* the two branches of the penalty exchanged
BrevityPenaltyInverted(ref_toks, cand_toks) ==
    IF Len(cand_toks) = 0
       THEN [exp |-> FALSE, num |-> 0, den |-> 1]
       ELSE IF Len(ref_toks) < Len(cand_toks)
               THEN [exp |-> TRUE, num |-> Len(cand_toks) - Len(ref_toks),
                     den |-> Len(cand_toks)]
               ELSE [exp |-> FALSE, num |-> 1, den |-> 1]

\* brevity_penalty: 0.0 for an empty candidate; with r = len(reference) /
\* len(candidate), 1.0 if r < 1 and exp(1 - r) otherwise
BrevityPenalty(ref_toks, cand_toks) ==
    IF Len(cand_toks) = 0
       THEN [exp |-> FALSE, num |-> 0, den |-> 1]
       ELSE IF Len(ref_toks) < Len(cand_toks)
               THEN [exp |-> FALSE, num |-> 1, den |-> 1]
               ELSE [exp |-> TRUE, num |-> Len(cand_toks) - Len(ref_toks),
                     den |-> Len(cand_toks)]

\* p = 1; for i in range(1, n + 1): p *= n_gram_precision(reference, candidate, i)
RECURSIVE PrecisionProduct(_, _, _)
PrecisionProduct(ref_toks, cand_toks, nn) ==
    IF nn = 0
       THEN <<1, 1>>
       ELSE LET p == PrecisionProduct(ref_toks, cand_toks, nn - 1)
                q == NGramPrecision(ref_toks, cand_toks, nn)
            IN  <<p[1] * q[1], p[2] * q[2]>>

\* BLEU_score without the factor 100.0
BLEUScoreUnscaled(ref_toks, cand_toks, nn) ==
    IF Len(cand_toks) < nn
       THEN [zero |-> TRUE]
       ELSE [zero |-> FALSE,
             bp |-> BrevityPenalty(ref_toks, cand_toks),
             p |-> PrecisionProduct(ref_toks, cand_toks, nn),
             root |-> nn,
             scale |-> 1]

\* BLEU_score: 0.0 if the candidate is shorter than n, else
\* bp * (p ** (1 / n)) * 100.0
BLEUScore(ref_toks, cand_toks, nn) ==
    IF Len(cand_toks) < nn
       THEN [zero |-> TRUE]
       ELSE [zero |-> FALSE,
             bp |-> BrevityPenalty(ref_toks, cand_toks),
             p |-> PrecisionProduct(ref_toks, cand_toks, nn),
             root |-> nn,
             scale |-> 100]

\* the tokens of the sequences that are scored
ScoreTokens == {"3", "4"}

\* the n-gram orders
Orders1 == 1..MaxOrder

InitScore ==
    /\ pc = "score"
    /\ reference \in SeqsOf(ScoreTokens, 0, MaxSeqLen)
    /\ candidate \in SeqsOf(ScoreTokens, 0, MaxSeqLen)
    /\ order \in Orders1
    /\ ngrams = <<>> /\ p_n = <<>> /\ bp = <<>> /\ score = <<>>
    /\ IdleRunner /\ IdleModel /\ IdleClean /\ IdleMask /\ IdleCheck /\ IdleSched /\ IdleExtra

GrouperCall ==
    /\ pc = "score"
    /\ ngrams' = Grouper(candidate, order)
    /\ pc' = "grouper_done"
    /\ UNCHANGED <<reference, candidate, order, p_n, bp, score, nonScoreVars>>

NGramPrecisionCall ==
    /\ pc = "score"
    /\ p_n' = NGramPrecision(reference, candidate, order)
    /\ pc' = "precision_done"
    /\ UNCHANGED <<reference, candidate, order, ngrams, bp, score, nonScoreVars>>

BrevityPenaltyCall ==
    /\ pc = "score"
    /\ bp' = BrevityPenalty(reference, candidate)
    /\ pc' = "brevity_done"
    /\ UNCHANGED <<reference, candidate, order, ngrams, p_n, score, nonScoreVars>>

BLEUScoreCall ==
    /\ pc = "score"
    /\ score' = BLEUScore(reference, candidate, order)
    /\ pc' = "bleu_score_done"
    /\ UNCHANGED <<reference, candidate, order, ngrams, p_n, bp, nonScoreVars>>

NextScore == GrouperCall \/ NGramPrecisionCall \/ BrevityPenaltyCall \/ BLEUScoreCall

SpecScore == InitScore /\ [][NextScore]_vars

----------------------------------------------------------------------------
(* model.py: create_causal_mask                                            *)

\* torch.zeros(length, length, dtype=torch.bool) and torch.ones_like
Zeros(rows, cols) == [r \in 1..rows |-> [c \in 1..cols |-> FALSE]]

OnesLike(M) == [r \in 1..Len(M) |-> [c \in 1..Len(M[r]) |-> TRUE]]

\* torch.triu: keeps the elements on and above the given diagonal
Triu(M, diagonal) ==
    [r \in 1..Len(M) |-> [c \in 1..Len(M[r]) |-> M[r][c] /\ c - r >= diagonal]]

\* the mask that keeps the main diagonal
CreateCausalMaskWithDiagonal(toks) ==
    LET length == Len(toks[1])
    IN  <<Triu(OnesLike(Zeros(length, length)), 0)>>

\* create_causal_mask: triu(ones, diagonal=1).unsqueeze(0)
CreateCausalMask(toks) ==
    LET length == Len(toks[1])
        M == Zeros(length, length)
    IN  <<Triu(OnesLike(M), 1)>>

InitMask ==
    /\ pc = "mask"
    /\ tokens \in Tensors2(MaxCells)
    /\ causal_mask = <<>>
    /\ IdleRunner /\ IdleModel /\ IdleClean /\ IdleScore /\ IdleCheck /\ IdleSched /\ IdleExtra

CreateCausalMaskCall ==
    /\ pc = "mask"
    /\ causal_mask' = CreateCausalMask(tokens)
    /\ pc' = "mask_done"
    /\ UNCHANGED <<tokens, nonMaskVars>>

NextMask == CreateCausalMaskCall

SpecMask == InitMask /\ [][NextMask]_vars

----------------------------------------------------------------------------
(* utils.py: nan_check, inf_check, nan_inf_check                           *)
(*                                                                         *)
(* An element of a tensor is a finite number, NaN or an infinity.  A text  *)
(* (what is printed, the message of an error) is the sequence of its       *)
(* pieces.                                                                 *)

Elements == {"1.", "nan", "inf"}

\* the names a caller gives to a tensor
TensorNames == {"x", "loss"}

\* str(t)
TensorStr(t) == <<"tensor(">> \o t \o <<")">>

\* t.isnan().any().item() and t.isinf().any().item()
AnyIsNan(t) == \E x \in 1..Len(t) : t[x] = "nan"

AnyIsInf(t) == \E x \in 1..Len(t) : t[x] = "inf"

\* the outcome of a check: what was printed and the error raised, <<>> for
\* a silent return
Silent == [printed |-> <<>>, error |-> <<>>]

\* nan_check
NanCheck(t, name) ==
    IF AnyIsNan(t)
       THEN [printed |-> TensorStr(t) \o <<name>>,
             error |-> [type |-> "ValueError",
                        message |-> <<"NaNs in tensor ">> \o TensorStr(t)]]
       ELSE Silent

\* inf_check
InfCheck(t, name) ==
    IF AnyIsInf(t)
       THEN [printed |-> TensorStr(t) \o <<name>>,
             error |-> [type |-> "ValueError",
                        message |-> <<"Infs in tensor ">> \o TensorStr(t)]]
       ELSE Silent

\* nan_inf_check: nan_check, then inf_check unless nan_check raised
NanInfCheck(t, name) ==
    IF NanCheck(t, name).error # <<>> THEN NanCheck(t, name) ELSE InfCheck(t, name)

InitCheck ==
    /\ pc = "check"
    /\ checked \in SeqsOf(Elements, 0, MaxTensorLen)
    /\ t_name \in TensorNames
    /\ raised_error = <<>>
    /\ printed = <<>>
    /\ IdleRunner /\ IdleModel /\ IdleClean /\ IdleScore /\ IdleMask /\ IdleSched /\ IdleExtra

NanCheckCall ==
    /\ pc = "check"
    /\ \E r \in {NanCheck(checked, t_name)} :
          /\ printed' = r.printed
          /\ raised_error' = r.error
          /\ pc' = IF r.error = <<>> THEN "nan_check_returned" ELSE "nan_check_raised"
    /\ UNCHANGED <<checked, t_name, nonCheckVars>>

InfCheckCall ==
    /\ pc = "check"
    /\ \E r \in {InfCheck(checked, t_name)} :
          /\ printed' = r.printed
          /\ raised_error' = r.error
          /\ pc' = IF r.error = <<>> THEN "inf_check_returned" ELSE "inf_check_raised"
    /\ UNCHANGED <<checked, t_name, nonCheckVars>>

NanInfCheckCall ==
    /\ pc = "check"
    /\ \E r \in {NanInfCheck(checked, t_name)} :
          /\ printed' = r.printed
          /\ raised_error' = r.error
          /\ pc' = IF r.error = <<>> THEN "nan_inf_check_returned"
                                     ELSE "nan_inf_check_raised"
    /\ UNCHANGED <<checked, t_name, nonCheckVars>>

NextCheck == NanCheckCall \/ InfCheckCall \/ NanInfCheckCall

SpecCheck == InitCheck /\ [][NextCheck]_vars

----------------------------------------------------------------------------
(* utils.py: schedule_rate                                                 *)
(*                                                                         *)
(* The rate is kept as the expression that gives it:                       *)
(* factor * (model_size ** (-0.5) * term), where term is the decay term    *)
(* step ** (-0.5) or the warm-up term step * warmup ** (-1.5).  Terms are  *)
(* compared exactly: all of them are positive, so a comparison of two      *)
(* terms is the comparison of their squares, cleared of denominators.      *)

DecayTerm(st) == [branch |-> "decay", step |-> st, warmup |-> 0]

WarmupTerm(st, w) == [branch |-> "warmup", step |-> st, warmup |-> w]

\* step * warmup ** (-1.5) < step ** (-0.5): squared, step^2 / w^3 < 1 / step
WarmupLtDecay(st, w) == st * st * st < w * w * w

\* min(a, b) of Python: b if b < a, else a
MinTerm(st, w) == IF WarmupLtDecay(st, w) THEN WarmupTerm(st, w) ELSE DecayTerm(st)

\* schedule_rate without the clamp of step 0
ScheduleRateNoClamp(st, m, f, w) ==
    IF m = 0 \/ w = 0
       THEN [raised |-> TRUE]
       ELSE [raised |-> FALSE, factor |-> f, model_size |-> m, term |-> MinTerm(st, w)]

\* schedule_rate; a zero raised to a negative power raises ZeroDivisionError
ScheduleRate(st, m, f, w) ==
    LET clamped == IF st = 0 THEN 1 ELSE st
    IN  IF m = 0 \/ w = 0
           THEN [raised |-> TRUE]
           ELSE [raised |-> FALSE, factor |-> f, model_size |-> m,
                 term |-> MinTerm(clamped, w)]

InitSched ==
    /\ pc = "sched"
    /\ step \in 0..MaxStep
    /\ model_size \in 0..MaxModelSize
    /\ factor \in 1..MaxFactor
    /\ warmup \in 0..MaxWarmup
    /\ rate = <<>>
    /\ IdleRunner /\ IdleModel /\ IdleClean /\ IdleScore /\ IdleMask /\ IdleCheck /\ IdleExtra

ScheduleRateCall ==
    /\ pc = "sched"
    /\ rate' = ScheduleRate(step, model_size, factor, warmup)
    /\ pc' = "sched_done"
    /\ UNCHANGED <<step, model_size, factor, warmup, nonSchedVars>>

NextSched == ScheduleRateCall

SpecSched == InitSched /\ [][NextSched]_vars

----------------------------------------------------------------------------
(* TransformerRunner.translate                                             *)
(*                                                                         *)
(* A string is the sequence of its pieces (words and separators).          *)

\* the words of the source vocabulary and their ids; "zzz" is a word a
\* sentence may hold that the vocabulary does not
source_word2id == [w \in {"le", "chat"} |-> IF w = "le" THEN 4 ELSE 5]

source_unk_id == 3

SourceWords == {"le", "chat", "zzz"}

\* dict.get(key, default)
Get(d, key, default) == IF key \in DOMAIN d THEN d[key] ELSE default

\* target_id2word[token_id]
target_id2word == [t \in Vocab |-> <<"word", t>>]

\* the encoder output of a source sentence: a deterministic function of
\* its ids, one of the values a source example takes
SourceValue(ids) == SumSeq(ids) % (MaxSrc + 1)

\* max_len is left at its default by translate; the model scales the
\* default down to the largest length of a decoding call
DefaultMaxLen == MaxLen

\* separator.join(words)
RECURSIVE Join(_, _)
Join(sep, words) ==
    IF words = <<>> THEN <<>>
    ELSE IF Len(words) = 1 THEN <<words[1]>>
    ELSE <<words[1], sep>> \o Join(sep, Tail(words))

\* the decoding loop of step 4 with sos let through
RECURSIVE OutputTokensKeepSos(_, _, _, _)
OutputTokensKeepSos(row, sos, eos, pad) ==
    IF row = <<>> THEN <<>>
    ELSE (IF Head(row) \notin {eos, pad} THEN <<target_id2word[Head(row)]>> ELSE <<>>)
         \o OutputTokensKeepSos(Tail(row), sos, eos, pad)

\* for token_id in hypotheses[0]: if token_id not in [eos_idx, pad_idx,
\* sos_idx]: output_tokens.append(target_id2word[token_id.item()])
RECURSIVE OutputTokens(_, _, _, _)
OutputTokens(row, sos, eos, pad) ==
    IF row = <<>> THEN <<>>
    ELSE (IF Head(row) \notin {eos, pad, sos} THEN <<target_id2word[Head(row)]>> ELSE <<>>)
         \o OutputTokens(Tail(row), sos, eos, pad)

InitTranslate ==
    /\ pc = "translate"
    /\ sentence_tokens \in SeqsOf(SourceWords, 1, MaxSentence)
    /\ opt_greedy \in BOOLEAN
    /\ source_tokens = <<>>
    /\ translation = <<>>
    /\ weights \in WeightSets
    /\ src = <<>>
    /\ max_len = DefaultMaxLen
    /\ IF opt_greedy THEN k = 0 /\ tie = "low"
                     ELSE k \in BeamWidths /\ tie \in TiePolicies
    /\ seq = <<>>
    /\ out = <<>>
    /\ IdleRunner /\ IdlePad /\ IdleBinit /\ IdleBeam /\ IdleSlow
    /\ IdleClean /\ IdleScore /\ IdleMask /\ IdleCheck /\ IdleSched /\ IdleAttn
    /\ IdleLayer

\* steps 1 to 3 up to the call of the decoding routine
TranslateStart ==
    /\ pc = "translate"
    /\ \E ids \in {AsSeq([p \in 1..Len(sentence_tokens) |->
                      Get(source_word2id, sentence_tokens[p], source_unk_id)])} :
          /\ source_tokens' = <<ids>>
          /\ src' = <<SourceValue(ids)>>
    /\ IF opt_greedy
          THEN /\ seq' = InitializeGenerationSequence(source_tokens', target_sos)
               /\ pc' = "greedy"
          ELSE /\ seq' = seq
               /\ pc' = "beam_call"
    /\ UNCHANGED <<sentence_tokens, opt_greedy, translation, weights, max_len, k, tie,
                   out>>
    /\ UNCHANGED <<runnerVars, padVars, binitVars, beamVars, slowVars, cleanVars,
                   scoreVars, maskVars, checkVars, schedVars, attnVars, layerVars>>

\* step 4, once the decoding routine has returned
TranslateReturn ==
    /\ pc \in {"greedy_done", "beam_done"}
    /\ translation' = Join(" ", OutputTokens(out[1], target_sos, target_eos, padding_idx))
    /\ pc' = "translate_done"
    /\ UNCHANGED <<sentence_tokens, opt_greedy, source_tokens>>
    /\ UNCHANGED <<runnerVars, modelVars, cleanVars, scoreVars, maskVars, checkVars,
                   schedVars, attnVars, layerVars>>

NextTranslate == TranslateStart \/ NextGreedy \/ NextBeam \/ TranslateReturn

SpecTranslate == InitTranslate /\ [][NextTranslate]_vars

----------------------------------------------------------------------------
(* MultiHeadAttention.set_attention_scores                                 *)

None == <<>>

\* the values of a score after masking: a finite number or -inf
ScoreValues == {0, 1, NegInf}

\* the tensors handed to set_attention_scores, flattened
ScoreTensors == SeqsOf(ScoreValues, 1, MaxScores)

\* scores.cpu().detach().numpy()
Numpy(t) == [ndarray |-> t]

\* set_attention_scores: the two if statements in turn.  The second one
\* runs for an absent argument too, and None has no attribute cpu.
SetAttentionScores(self, scores) ==
    LET cleared == IF scores = None THEN [self EXCEPT !.attention_scores = None]
                                    ELSE self
    IN  IF cleared.store_attention_scores /\ ~cleared.training
           THEN IF scores = None
                   THEN [self |-> cleared, raised |-> "AttributeError"]
                   ELSE [self |-> [cleared EXCEPT !.attention_scores = Numpy(scores)],
                         raised |-> ""]
           ELSE [self |-> cleared, raised |-> ""]

\* __init__: the flag is a constructor argument, a new module is in
\* training mode, and no snapshot is stored
InitAttn ==
    /\ pc = "attn"
    /\ store_attention_scores \in BOOLEAN
    /\ training = TRUE
    /\ attention_scores = None
    /\ attn_call = <<>>
    /\ IdleRunner /\ IdleModel /\ IdleClean /\ IdleScore /\ IdleMask /\ IdleCheck
    /\ IdleSched /\ IdleTranslate /\ IdleLayer

\* module.train() and module.eval()
SetMode ==
    /\ pc = "attn"
    /\ training' \in BOOLEAN \ {training}
    /\ UNCHANGED <<pc, store_attention_scores, attention_scores, attn_call>>
    /\ UNCHANGED <<runnerVars, modelVars, cleanVars, scoreVars, maskVars, checkVars,
                   schedVars, translateVars, layerVars>>

SetAttentionScoresCall ==
    /\ pc = "attn"
    /\ \E scores \in {None} \cup ScoreTensors :
          \E r \in {SetAttentionScores(
                       [store_attention_scores |-> store_attention_scores,
                        training |-> training,
                        attention_scores |-> attention_scores], scores)} :
             /\ attention_scores' = r.self.attention_scores
             /\ attn_call' = [scores |-> scores, raised |-> r.raised]
    /\ UNCHANGED <<pc, store_attention_scores, training>>
    /\ UNCHANGED <<runnerVars, modelVars, cleanVars, scoreVars, maskVars, checkVars,
                   schedVars, translateVars, layerVars>>

NextAttn == SetMode \/ SetAttentionScoresCall

SpecAttn == InitAttn /\ [][NextAttn]_vars

----------------------------------------------------------------------------
(* TransformerEncoderLayer.pre_layer_norm_forward and                       *)
(* TransformerDecoderLayer.pre_layer_norm_forward on one position, in       *)
(* evaluation mode (dropout is the identity)                                *)

nonLayerVars == <<runnerVars, modelVars, cleanVars, scoreVars, maskVars, checkVars,
                  schedVars, translateVars, attnVars>>

Sign(n) == IF n > 0 THEN 1 ELSE IF n < 0 THEN 0 - 1 ELSE 0

\* LayerNorm.forward with gamma = 1 and beta = 0: (x - mean) / sqrt(var + eps)
\* over the features.  Every feature is centred on the mean and scaled; for
\* two features the result is +1, -1 or 0 up to eps
LayerNorm(v) == [p \in 1..Len(v) |-> Sign(Len(v) * v[p] - SumSeq(v))]

VecAdd(u, v) == [p \in 1..Len(u) |-> u[p] + v[p]]

\* MultiHeadAttention.forward on one query position: the softmax over a
\* single key is 1, so the output is a linear map of the value
Attention(a, query, value) == [p \in 1..Len(query) |-> a * value[p]]

\* nn.ReLU
ReLU(n) == IF n > 0 THEN n ELSE 0

\* FeedForwardLayer.forward: w_2(relu(w_1(x)))
FeedForward(w, v) == [p \in 1..Len(v) |-> w.w_2 * ReLU(w.w_1 * v[p])]

LayerWeightValues == 0..MaxLayerWeight

LayerWeights ==
    [self_attn : LayerWeightValues, cross_attn : LayerWeightValues,
     w_1 : {1}, w_2 : LayerWeightValues]

Features == [1..DModel -> (0 - MaxFeature)..MaxFeature]

InitLayer ==
    /\ pc \in {"enc_ln1", "dec_self"}
    /\ layer_w \in LayerWeights
    /\ layer_x \in Features
    /\ layer_src_x = IF pc = "dec_self" THEN [p \in 1..DModel |-> p] ELSE <<>>
    /\ residual = <<>>
    /\ sub_in = <<>>
    /\ added = <<>>
    /\ IdleRunner /\ IdleModel /\ IdleClean /\ IdleScore /\ IdleMask /\ IdleCheck
    /\ IdleSched /\ IdleTranslate /\ IdleAttn

\* encoder layer: x = self.ln1(x)
EncoderLn1 ==
    /\ pc = "enc_ln1"
    /\ sub_in' = layer_x
    /\ layer_x' = LayerNorm(layer_x)
    /\ pc' = "enc_attn"
    /\ UNCHANGED <<layer_w, layer_src_x, residual, added, nonLayerVars>>

\* encoder layer: x = x + self.self_attn(x, mask=mask)
EncoderSelfAttn ==
    /\ pc = "enc_attn"
    /\ added' = layer_x
    /\ layer_x' = VecAdd(layer_x, Attention(layer_w.self_attn, layer_x, layer_x))
    /\ pc' = "enc_ln2"
    /\ UNCHANGED <<layer_w, layer_src_x, residual, sub_in, nonLayerVars>>

\* encoder layer: x = self.ln2(x)
EncoderLn2 ==
    /\ pc = "enc_ln2"
    /\ sub_in' = layer_x
    /\ layer_x' = LayerNorm(layer_x)
    /\ pc' = "enc_ff"
    /\ UNCHANGED <<layer_w, layer_src_x, residual, added, nonLayerVars>>

\* encoder layer: x = x + self.ff(x)
EncoderFf ==
    /\ pc = "enc_ff"
    /\ added' = layer_x
    /\ layer_x' = VecAdd(layer_x, FeedForward(layer_w, layer_x))
    /\ pc' = "enc_done"
    /\ UNCHANGED <<layer_w, layer_src_x, residual, sub_in, nonLayerVars>>

\* decoder layer: residual = x; x = self.norm1(x);
\* x = self.self_attn(x, x, x, mask); x = x + residual
DecoderSelfAttn ==
    /\ pc = "dec_self"
    /\ sub_in' = layer_x
    /\ residual' = layer_x
    /\ \E n \in {LayerNorm(layer_x)} :
          layer_x' = VecAdd(Attention(layer_w.self_attn, n, n), residual')
    /\ added' = residual'
    /\ pc' = "dec_cross"
    /\ UNCHANGED <<layer_w, layer_src_x, nonLayerVars>>

\* decoder layer: residual = x; x = self.norm2(x);
\* x = self.cross_attn(x, src_x, src_x, src_mask); x = x + residual
DecoderCrossAttn ==
    /\ pc = "dec_cross"
    /\ sub_in' = layer_x
    /\ residual' = layer_x
    /\ \E n \in {LayerNorm(layer_x)} :
          layer_x' = VecAdd(Attention(layer_w.cross_attn, n, layer_src_x), residual')
    /\ added' = residual'
    /\ pc' = "dec_ff"
    /\ UNCHANGED <<layer_w, layer_src_x, nonLayerVars>>

\* decoder layer: residual = x; x = self.norm3(x); x = self.ff(x);
\* x = x + residual
DecoderFf ==
    /\ pc = "dec_ff"
    /\ sub_in' = layer_x
    /\ residual' = layer_x
    /\ layer_x' = VecAdd(FeedForward(layer_w, LayerNorm(layer_x)), residual')
    /\ added' = residual'
    /\ pc' = "dec_done"
    /\ UNCHANGED <<layer_w, layer_src_x, nonLayerVars>>

NextLayer ==
    \/ EncoderLn1 \/ EncoderSelfAttn \/ EncoderLn2 \/ EncoderFf
    \/ DecoderSelfAttn \/ DecoderCrossAttn \/ DecoderFf

SpecLayer == InitLayer /\ [][NextLayer]_vars

----------------------------------------------------------------------------
(* Properties *)

Max(a, b) == IF a >= b THEN a ELSE b

\* C1: compute_average_bleu_over_dataset returns, for each n-gram level,
\* the sum of the scores of every example of every batch divided by the
\* number of examples (here for the default levels).
C1_AverageOverAllExamples ==
    (pc = "bleu_done" /\ n_gram_levels = DefaultLevels) =>
        \A j \in 1..Len(avg_bleu) :
            avg_bleu[j] = <<ref_sum[n_gram_levels[j]], ref_count>>

\* C2: in every epoch of train, a BLEU that does not exceed the best so far
\* (lower or equal) increments num_poor and leaves best_bleu; only a
\* strictly higher BLEU resets num_poor and becomes best_bleu.
C2_TieCountsAsPoor ==
    [][(pc = "train" /\ pc' = "train") =>
          /\ (bleu' <= best_bleu => num_poor' = num_poor + 1 /\ best_bleu' = best_bleu)
          /\ (bleu' > best_bleu => num_poor' = 0 /\ best_bleu' = bleu')]_vars

\* C3: train always terminates.
C3_TrainTerminates == <>(pc = "train_done")

\* C4: in train_for_epoch the update runs exactly after the batches a, 2a,
\* ... and after the last batch N (ceil(N/a) times at the end), as
\* optimizer.step, zero_grad, scheduler.step in this order; every batch's
\* gradient is part of exactly one optimizer step and none is left at the
\* end of the epoch.
C4_UpdateSchedule ==
    (pc \in {"epoch", "epoch_done"}) =>
        LET due == {m \in 1..i : m % accum_iter = 0 \/ m = n_batches} IN
        /\ {updates[x] : x \in 1..Len(updates)} = due
        /\ Len(updates) = Cardinality(due)
        /\ \A x \in 1..(Len(updates) - 1) : updates[x] < updates[x + 1]
        /\ Len(applied) = Len(updates)
        /\ sched_steps = Len(updates)
        /\ \A e \in 1..Len(applied) :
              applied[e].lr = e - 1 /\ applied[e].batches # {}
        /\ \A b \in 1..i :
              Cardinality({e \in 1..Len(applied) : b \in applied[e].batches})
                 + (IF b \in grad THEN 1 ELSE 0) = 1
        /\ (pc = "epoch_done" =>
              /\ grad = {}
              /\ Len(applied) = (n_batches + accum_iter - 1) \div accum_iter)

\* a finished epoch whose last accumulation window is partial
C4_Witness ==
    /\ pc = "epoch_done"
    /\ accum_iter > 1
    /\ n_batches > accum_iter
    /\ n_batches % accum_iter # 0

RowPairs(x, y) ==
    IF x.dims = 2
       THEN {<<x.t[r], y.t[r]>> : r \in 1..Len(x.t)}
       ELSE UNION {{<<x.t[b][g], y.t[b][g]>> : g \in 1..Len(x.t[b])} : b \in 1..Len(x.t)}

SameShape(x, y) ==
    /\ x.dims = y.dims
    /\ Len(x.t) = Len(y.t)
    /\ x.dims = 3 => \A b \in 1..Len(x.t) : Len(x.t[b]) = Len(y.t[b])


C10_PadIdempotent ==
    /\ pc = "pad_twice" => padded_twice = padded
    /\ (pc \in {"pad_once", "pad_twice"}) =>
          \A rp \in RowPairs(tgt_generation_in, padded) :
              ~HasEos(rp[1], eos_arg) => rp[2] = rp[1]

\* applied twice to an input with a row it changes and a row without eos
C10_Witness ==
    /\ pc = "pad_twice"
    /\ \E rp \in RowPairs(tgt_generation_in, padded) : rp[2] # rp[1]
    /\ \E rp \in RowPairs(tgt_generation_in, padded) :
          ~HasEos(rp[1], eos_arg) /\ Len(rp[1]) >= 2

\* C7 as stated: for any vocabulary size and any beam width k, none of the
\* first tokens initialize_beams_for_beam_search chooses is the eos id.
C7_FirstTokenNeverEos ==
    pc = "binit_done" => \A e \in 1..Len(top_indices) : top_indices[e] # target_eos

\* C7 amended: none of the k first tokens is the eos id whenever k is below
\* the vocabulary size; with k equal to the vocabulary size the eos id is
\* the last of them.
C7_FirstTokenNeverEosBelowVocab ==
    (pc = "binit_done" /\ k < VocabSize) =>
        /\ Len(top_indices) = k
        /\ \A e \in 1..Len(top_indices) : top_indices[e] # target_eos

\* eos is the decoder's most probable first token, strictly above k other
\* tokens that are chosen instead
C7_Witness ==
    /\ pc = "binit_done"
    /\ k >= 2
    /\ k < VocabSize
    /\ \A t \in Vocab : t # target_eos => log_probs[target_eos] > log_probs[t]

\* the length of the rows of a returned tensor
PadTo(toks, n) == [p \in 1..n |-> IF p <= Len(toks) THEN toks[p] ELSE padding_idx]

\* the finished candidates of input row e that no other one outscores
BestFinished(e) == {c \in seen_finished[e] : \A d \in seen_finished[e] : d.s <= c.s}

\* every active example's tensors and sentence id are those of one input row
Aligned ==
    pc \in {"beam", "beam_break"} =>
        /\ Len(cur_sentence_ids) = cur_batch_size
        /\ Len(tgt_generation) = cur_batch_size
        /\ \A b \in 1..cur_batch_size :
              /\ cur_sentence_ids[b] = row_of[b]
              /\ \A j \in 1..Len(src_x[b]) : src_x[b][j] = src[row_of[b]]

\* C8: beam_search_decode never raises when decoding degenerates (no eos,
\* no finished beam) and returns one row per input example in the input
\* order: row e is a highest-scoring finished candidate of example e, or
\* its best alive beam when it has none; removing finished examples from
\* the batch never moves a result to another row.
C8_OneRowPerExampleInOrder ==
    /\ pc # "beam_raised"
    /\ Aligned
    /\ pc = "beam_done" =>
          /\ Len(out) = Len(src)
          /\ \A e \in 1..Len(src) :
                IF seen_finished[e] # {}
                   THEN \E c \in BestFinished(e) : out[e] = PadTo(c.toks, Len(out[e]))
                                                    /\ Len(c.toks) <= Len(out[e])
                   ELSE /\ out[e] = PadTo(best_alive[e], Len(out[e]))
                        /\ Len(best_alive[e]) <= Len(out[e])

\* two examples: the first finished and left the batch while the second
\* went on decoding in its place and never produced a finished candidate
C8_Witness ==
    /\ pc = "beam_done"
    /\ Len(src) = 2
    /\ compacted
    /\ seen_finished[1] # {}
    /\ seen_finished[2] = {}
    /\ out[1] # out[2]

\* C6: for a single example beam_search_decode_slow returns the token
\* sequence that the batched beam_search_decode returns.
C6_SlowEqualsBatched ==
    (pc = "slow_done" /\ Len(src) = 1) => slow_out = out

\* in every row of t, the positions after an eos id hold the padding id
AfterEosPadded(t) ==
    \A r \in 1..Len(t) : \A p \in 1..Len(t[r]) : \A q \in 1..Len(t[r]) :
        (t[r][p] = target_eos /\ q > p) => t[r][q] = padding_idx

\* C11: in every row of the output of greedy_decode and of
\* beam_search_decode, once an eos id appears every following position
\* holds the padding id.
C11_PaddingAfterEos ==
    pc \in {"greedy_done", "beam_done"} => AfterEosPadded(out)

\* beam search returned a row whose eos is followed by further positions
C11_Witness ==
    /\ pc = "beam_done"
    /\ \E r \in 1..Len(out) : \E p \in 1..Len(out[r]) :
          out[r][p] = target_eos /\ p < Len(out[r])

\* the ids of a row before its first eos that are no special id, in order,
\* as strings
CleanedList(row) ==
    LET before == SubSeq(row, 1, FirstEos(row, target_eos))
        kept == SelectSeq(before, LAMBDA t : t \notin {target_sos, target_eos, padding_idx})
    IN  [p \in 1..Len(kept) |-> ToString(kept[p])]

Windows(sq, nn) ==
    [x \in 1..Max(Len(sq) - nn + 1, 0) |-> SubSeq(sq, x, x + nn - 1)]

\* the number of windows of cand_toks, repeated ones counted each time, that
\* equal some window of ref_toks
MatchCount(ref_toks, cand_toks, nn) ==
    Cardinality({x \in 1..(Len(cand_toks) - nn + 1) :
                    \E y \in 1..(Len(ref_toks) - nn + 1) :
                        SubSeq(cand_toks, x, x + nn - 1) = SubSeq(ref_toks, y, y + nn - 1)})

\* the value of a penalty is 0.0, is 1.0, is below 1.0
PenaltyIsZero(v) == ~v.exp /\ v.num = 0
PenaltyIsOne(v) == IF v.exp THEN v.num = 0 ELSE v.num = v.den
PenaltyBelowOne(v) == IF v.exp THEN v.num < 0 ELSE v.num < v.den

\* the value of a score is 0.0, is 100.0
ScoreIsZero(v) == v.zero \/ PenaltyIsZero(v.bp) \/ v.p[1] = 0
ScoreIsHundred(v) ==
    ~v.zero /\ PenaltyIsOne(v.bp) /\ v.p[1] = v.p[2] /\ v.scale = 100

\* C13: BLEU_score returns 0.0 when the candidate has fewer than n tokens,
\* and whenever the n-gram precision of some order 1..n is zero.
C13_ZeroScore ==
    pc = "bleu_score_done" =>
        ((\/ Len(candidate) < order
          \/ \E x \in 1..order :
                \/ Len(candidate) < x
                \/ Len(reference) < x
                \/ MatchCount(reference, candidate, x) = 0)
            => ScoreIsZero(score))

C13_Witness ==
    /\ pc = "bleu_score_done"
    /\ order = 2
    /\ Len(candidate) = 3
    /\ Len(reference) = 3
    /\ MatchCount(reference, candidate, 1) > 0
    /\ MatchCount(reference, candidate, 2) = 0
    /\ ScoreIsZero(score)

\* C14: for every non-empty s and every n with 1 <= n <= len(s),
\* BLEU_score(s, s, n) is 100.0.
C14_SelfScoreHundred ==
    (/\ pc = "bleu_score_done"
     /\ reference = candidate
     /\ candidate # <<>>
     /\ order \in 1..Len(candidate))
        => ScoreIsHundred(score)

C14_Witness ==
    /\ pc = "bleu_score_done"
    /\ reference = candidate
    /\ Len(candidate) = 3
    /\ order = 3
    /\ ScoreIsHundred(score)

\* C15: n_gram_precision returns 0.0 when either sequence has fewer than n
\* tokens; otherwise it returns the number of candidate n-grams, counted
\* with repetition and unclipped, that equal some reference n-gram, divided
\* by the number of candidate n-grams, a value in [0, 1].
C15_Precision ==
    pc = "precision_done" =>
        IF Len(candidate) < order \/ Len(reference) < order
           THEN p_n[1] = 0 /\ p_n[2] > 0
           ELSE /\ p_n = <<MatchCount(reference, candidate, order),
                           Len(candidate) - order + 1>>
                /\ 0 <= p_n[1]
                /\ p_n[1] <= p_n[2]
                /\ p_n[2] > 0

C15_Witness ==
    /\ pc = "precision_done"
    /\ order = 1
    /\ reference = <<"3", "4">>
    /\ candidate = <<"3", "3", "4">>
    /\ p_n = <<3, 3>>

\* C16: grouper(seq, n) returns, in order, the contiguous windows of length
\* n of seq: len(seq) - n + 1 of them when 1 <= n <= len(seq), and the empty
\* list when n > len(seq).
C16_Windows ==
    pc = "grouper_done" =>
        /\ ngrams = Windows(candidate, order)
        /\ order <= Len(candidate) => Len(ngrams) = Len(candidate) - order + 1
        /\ order > Len(candidate) => ngrams = <<>>

C16_Witness ==
    /\ pc = "grouper_done"
    /\ order = 2
    /\ candidate = <<"3", "4", "3">>
    /\ ngrams = << <<"3", "4">>, <<"4", "3">> >>

\* C17: brevity_penalty returns 0.0 for an empty candidate, 1.0 when the
\* non-empty candidate is at least as long as the reference, and
\* exp(1 - len(reference) / len(candidate)), a value below 1, when it is
\* shorter.
C17_BrevityPenalty ==
    pc = "brevity_done" =>
        /\ candidate = <<>> => PenaltyIsZero(bp)
        /\ (candidate # <<>> /\ Len(candidate) >= Len(reference))
              => PenaltyIsOne(bp)
        /\ (candidate # <<>> /\ Len(candidate) < Len(reference))
              => /\ PenaltyBelowOne(bp)
                 /\ bp = [exp |-> TRUE, num |-> Len(candidate) - Len(reference),
                          den |-> Len(candidate)]

C17_Witness ==
    /\ pc = "brevity_done"
    /\ Len(candidate) = 2
    /\ Len(reference) = 2
    /\ bp.exp
    /\ PenaltyIsOne(bp)


\* C18: create_causal_mask returns a boolean mask of shape [1, L, L] whose
\* entry [0][i][j] is True exactly when j > i, for every length L >= 1.
C18_CausalMask ==
    pc = "mask_done" =>
        LET L == Len(tokens[1])
        IN  /\ Len(causal_mask) = 1
            /\ Len(causal_mask[1]) = L
            /\ \A row \in 0..(L - 1) :
                  /\ Len(causal_mask[1][row + 1]) = L
                  /\ \A col \in 0..(L - 1) :
                        causal_mask[1][row + 1][col + 1] = (col > row)

C18_Witness ==
    /\ pc = "mask_done"
    /\ Len(tokens) = 1
    /\ Len(tokens[1]) = 3
    /\ causal_mask = << << <<FALSE, TRUE, TRUE>>,
                           <<FALSE, FALSE, TRUE>>,
                           <<FALSE, FALSE, FALSE>> >> >>


\* a text mentions a name
Mentions(text, name) == \E x \in 1..Len(text) : text[x] = name

\* nan_check is silent without a NaN and raises with one; nan_inf_check
\* raises the NaN error for a tensor with a NaN, whatever else it holds
NanChecked ==
    /\ pc \in {"nan_check_returned", "nan_check_raised"} =>
          IF AnyIsNan(checked)
             THEN /\ pc = "nan_check_raised"
                  /\ raised_error # <<>>
                  /\ raised_error.message[1] = "NaNs in tensor "
             ELSE pc = "nan_check_returned" /\ raised_error = <<>> /\ printed = <<>>
    /\ pc \in {"nan_inf_check_returned", "nan_inf_check_raised"} =>
          (AnyIsNan(checked) =>
              /\ pc = "nan_inf_check_raised"
              /\ raised_error # <<>>
              /\ raised_error.message[1] = "NaNs in tensor ")

\* C19: nan_check returns silently when no element of t is NaN and otherwise
\* fails with an error whose message mentions the supplied tensor name;
\* nan_inf_check fails with the NaN error for a tensor with NaN and Inf.
C19_NanCheckNamesTensor ==
    /\ NanChecked
    /\ pc = "nan_check_raised" => Mentions(raised_error.message, t_name)


\* two terms have one value: equal squares, cleared of denominators
TermEq(a, b) ==
    IF a.branch = b.branch
       THEN a.step = b.step /\ (a.branch = "warmup" => a.warmup = b.warmup)
       ELSE LET d == IF a.branch = "decay" THEN a ELSE b
                u == IF a.branch = "decay" THEN b ELSE a
            IN  u.warmup * u.warmup * u.warmup = d.step * u.step * u.step

\* C20: schedule_rate(0, m, f, w) equals schedule_rate(1, m, f, w); for an
\* integer step >= 1 the result is built on the decay term exactly when
\* step >= w and on the warm-up term when step <= w, the two terms having
\* one value at step = w.
C20_ScheduleRate ==
    pc = "sched_done" =>
        /\ step = 0 => rate = ScheduleRate(1, model_size, factor, warmup)
        /\ (step >= 1 /\ ~rate.raised) =>
              /\ rate.factor = factor
              /\ rate.model_size = model_size
              /\ TermEq(rate.term, DecayTerm(step)) <=> step >= warmup
              /\ TermEq(rate.term, WarmupTerm(step, warmup)) <=> step <= warmup

C20_Witness ==
    /\ pc = "sched_done"
    /\ step = 3
    /\ warmup = 3
    /\ ~rate.raised
    /\ TermEq(rate.term, DecayTerm(step))
    /\ TermEq(rate.term, WarmupTerm(step, warmup))


\* C21: translate maps every input token to its source-vocabulary id, or to
\* the unknown-token id when the vocabulary does not hold it, and returns
\* the target words of exactly those ids of the best decoded sequence that
\* are none of sos, eos, pad, in their order, joined by single spaces.
C21_Translate ==
    /\ pc \notin {"translate", "translate_raised"} =>
          /\ Len(source_tokens) = 1
          /\ Len(source_tokens[1]) = Len(sentence_tokens)
          /\ \A p \in 1..Len(sentence_tokens) :
                source_tokens[1][p] =
                   IF sentence_tokens[p] \in DOMAIN source_word2id
                      THEN source_word2id[sentence_tokens[p]]
                      ELSE source_unk_id
    /\ pc = "translate_done" =>
          LET kept == SelectSeq(out[1],
                         LAMBDA t : t \notin {target_sos, target_eos, padding_idx})
          IN  /\ Len(translation) = Max(2 * Len(kept) - 1, 0)
              /\ \A p \in 1..Len(translation) :
                    translation[p] = IF p % 2 = 1 THEN target_id2word[kept[(p + 1) \div 2]]
                                                  ELSE " "

C21_Witness ==
    /\ pc = "translate_done"
    /\ \E p \in 1..Len(sentence_tokens) : sentence_tokens[p] = "zzz"
    /\ \E p \in 1..Len(out[1]) : out[1][p] = padding_idx
    /\ Len(translation) >= 3


\* the last call of set_attention_scores had an absent argument
ClearCalled == attn_call # <<>> /\ attn_call.scores = None

\* the snapshot is cleared by a call with an absent argument
AttnCleared == ClearCalled => attention_scores = None

\* C22: a call of set_attention_scores with an absent value clears the
\* stored snapshot and completes without error, whatever the
\* store-attention flag and the mode.
C22_ClearNeverFails ==
    ClearCalled => attention_scores = None /\ attn_call.raised = ""


\* the top expan candidates of active example b at the coming step of
\* beam_search_decode, and those of the example of beam_search_decode_slow
TopCandidates(b) ==
    SelectTop(RepeatAndReshapeForBeamSearch(weights, src_x[b], tgt_generation[b],
                 seq_log_probs[b], k, Expan(k), tie),
              Expan(k), tie, FALSE)

SlowTopCandidates ==
    SelectTop(RepeatAndReshapeForBeamSearch(weights,
                 ExpandEncoderForBeamSearch(src, k)[slow_b], tgt_generation_b,
                 seq_log_probs_b, k, Expan(k), tie),
              Expan(k), tie, TRUE)

\* a step of the batched loop, of the slow loop, is about to run
BeamStepDue == pc = "beam" /\ BeamLoopCond /\ Expan(k) <= VocabSize

SlowStepDue ==
    pc = "slow" /\ slow_b <= Len(src) /\ slow_i < max_len /\ Expan(k) <= VocabSize

\* k rows, none of which holds eos
KAlive(rows) ==
    Len(rows) = k /\ \A j \in 1..Len(rows) : ~HasEos(rows[j], target_eos)

\* the same for the example beam_search_decode_slow is working on
SlowEnoughAlive ==
    /\ SlowStepDue => Cardinality(AliveOf(SlowTopCandidates)) >= k
    /\ (pc = "slow" /\ slow_b <= Len(src)) => KAlive(tgt_generation_b)
    /\ pc = "slow_raised" => Expan(k) > VocabSize

\* C23: at every step of beam search and for every active example, at
\* least k of the expan = 2k retained candidates hold no eos: the best
\* alive candidate exists, the step does not raise, and exactly k alive
\* beams per unfinished example go into the next step.
C23_EnoughAlive ==
    /\ BeamStepDue =>
          \A b \in 1..cur_batch_size : Cardinality(AliveOf(TopCandidates(b))) >= k
    /\ pc = "beam" => \A b \in 1..Len(tgt_generation) : KAlive(tgt_generation[b])
    /\ pc = "beam_raised" => Expan(k) > VocabSize

C23_Witness ==
    /\ BeamStepDue
    /\ k = 2
    /\ \E b \in 1..cur_batch_size : Cardinality(AliveOf(TopCandidates(b))) = k


\* the sum of the log-probabilities the decoder gave to the generated
\* tokens of a sequence (the position of sos contributes zero)
RECURSIVE TokenLogProbSum(_, _, _)
TokenLogProbSum(x, toks, p) ==
    IF p > Len(toks)
       THEN 0
       ELSE LET lp == Decoder(weights, x, SubSeq(toks, 1, p - 1))
            IN  lp[toks[p]] + TokenLogProbSum(x, toks, p + 1)

ScoreIsSum(x, toks, s) == s = TokenLogProbSum(x, toks, 2)

\* a sequence in which the decoder generated the padding id
GeneratedPad(toks) == \E p \in 2..Len(toks) : toks[p] = padding_idx

\* the scores of the carried beams and of the finished candidates are the
\* sums of the log-probabilities of their tokens when no token is the
\* padding id
ScoresAreSumsWithoutPad ==
    pc \in {"beam", "beam_break"} =>
        /\ \A b \in 1..Len(tgt_generation) : \A j \in 1..Len(tgt_generation[b]) :
              GeneratedPad(tgt_generation[b][j])
              \/ ScoreIsSum(src_x[b][1], tgt_generation[b][j], SumSeq(seq_log_probs[b][j]))
        /\ \A e \in 1..Len(finished_scores) : \A p \in 1..Len(finished_scores[e]) :
              GeneratedPad(finished_sequences[e][p])
              \/ ScoreIsSum(src[e], finished_sequences[e][p], finished_scores[e][p])

\* C24: in beam search the score of every candidate is the unnormalized sum
\* of the log-probabilities of all of its generated tokens up to and
\* including eos, whatever token ids the model generates.
C24_ScoreIsSumOfLogProbs ==
    pc \in {"beam", "beam_break"} =>
        /\ \A b \in 1..Len(tgt_generation) : \A j \in 1..Len(tgt_generation[b]) :
              ScoreIsSum(src_x[b][1], tgt_generation[b][j], SumSeq(seq_log_probs[b][j]))
        /\ \A e \in 1..Len(finished_scores) : \A p \in 1..Len(finished_scores[e]) :
              ScoreIsSum(src[e], finished_sequences[e][p], finished_scores[e][p])


\* input example e is in the active batch; it has left the active batch
Active(e) == pc = "beam" /\ \E b \in 1..cur_batch_size : cur_sentence_ids[b] = e

Removed(e) == pc \in {"beam", "beam_break", "beam_done"} /\ ~Active(e)

\* the score of the best alive candidate among the top candidates
BestAliveScore(sel) ==
    sel[CHOOSE a \in AliveOf(sel) : \A c \in AliveOf(sel) : a <= c].s

\* C25: in beam_search_decode an example leaves the active batch at a step
\* exactly when it has a finished candidate and its best finished score is
\* strictly greater than the score of its best alive retained candidate;
\* from then on it stays out of the batch and its finished list and its
\* row of the result never change.
C25_FinishedStaysFinished ==
    [][/\ (pc = "beam" /\ pc' \in {"beam", "beam_break"}) =>
             \A b \in 1..cur_batch_size :
                \A e \in {cur_sentence_ids[b]} :
                   Removed(e)' <=>
                      /\ Len(finished_scores'[e]) > 0
                      /\ SeqMax(finished_scores'[e]) > BestAliveScore(TopCandidates(b))
       /\ \A e \in 1..Len(src) :
             Removed(e) =>
                /\ Removed(e)'
                /\ finished_sequences'[e] = finished_sequences[e]
                /\ finished_scores'[e] = finished_scores[e]
                /\ pc' = "beam_done" =>
                      out'[e] = PadTo(finished_sequences[e][1], Len(out'[e]))]_vars

\* one example has left the batch and the other one has been decoded further
C25_Witness ==
    /\ pc = "beam"
    /\ Len(src) = 2
    /\ cur_batch_size = 1
    /\ Removed(1)
    /\ Len(finished_sequences[1]) > 0
    /\ Len(tgt_generation[1][1]) > Len(finished_sequences[1][1])


FinishedEntries(e) ==
    [p \in 1..Len(finished_sequences[e]) |->
        [toks |-> finished_sequences[e][p], s |-> finished_scores[e][p]]]

\* the finished list of example e is the best of the eos-containing
\* candidates retained for it so far, best first
HoldsBestFinished(e) ==
    LET fe == FinishedEntries(e)
        n == Len(finished_sequences[e])
    IN  /\ Len(finished_scores[e]) = n
        /\ n = Min(k, Cardinality(seen_finished[e]))
        /\ \A p \in 1..n :
              /\ HasEos(fe[p].toks, target_eos)
              /\ fe[p] \in seen_finished[e]
              /\ \A q \in 1..n : q > p => fe[q] # fe[p] /\ fe[q].s <= fe[p].s
        /\ \A c \in seen_finished[e] :
              (\A p \in 1..n : fe[p] # c) => \A p \in 1..n : c.s <= fe[p].s

\* C27: after every beam step each finished list holds at most k entries in
\* descending order of score, the highest-scoring eos-containing candidates
\* retained so far for its example; the alive beams carried hold no eos; the
\* row returned for an example is the first entry of its finished list.
C27_FinishedListsHoldBest ==
    /\ pc \in {"beam", "beam_break"} /\ finished_sequences # <<>> =>
          /\ \A e \in 1..Len(src) : HoldsBestFinished(e)
          /\ pc = "beam" =>
                \A b \in 1..cur_batch_size : \A j \in 1..k :
                   ~HasEos(tgt_generation[b][j], target_eos)
    /\ pc = "beam_done" =>
          \A e \in 1..Len(src) : out[e] = PadTo(finished_sequences[e][1], Len(out[e]))

\* more finished candidates were retained for an example than its list keeps
C27_Witness ==
    /\ pc = "beam"
    /\ k = 2
    /\ \E e \in 1..Len(src) :
          /\ Cardinality(seen_finished[e]) > k
          /\ Len(finished_sequences[e]) = k
          /\ finished_scores[e][1] > finished_scores[e][2]


\* the length of the sequences generated so far by the running call
GenLength ==
    IF pc = "greedy" THEN Len(seq[1])
    ELSE IF pc = "beam_call" THEN 1
    ELSE Len(tgt_generation[1][1])

\* an iteration of the loop of greedy_decode, of beam_search_decode
GreedyIteration == pc = "greedy" /\ pc' = "greedy" /\ seq' # seq

BeamLoopIteration ==
    pc = "beam" /\ pc' \in {"beam", "beam_break"} /\ tgt_generation' # tgt_generation

\* the decoder step of initialize_beams_for_beam_search
BeamFirstStep == pc = "beam_call" /\ pc' = "beam"

\* C28: greedy_decode and beam_search_decode take no decoder step once the
\* length of the generated sequences has reached max_len.
C28_NoStepAtMaxLen ==
    [][GreedyIteration \/ BeamLoopIteration \/ BeamFirstStep => GenLength < max_len]_vars

\* greedy_decode and beam_search_decode always terminate; an iteration
\* of either loop is taken only while the length is below max_len and some
\* row has no eos (some example is still in the batch), and it lengthens
\* the sequences by exactly one token; the decoder step that initializes
\* the beams lengthens the sos column to 2 whatever max_len is.
DecodeTerminates ==
    /\ [][/\ GreedyIteration =>
                /\ GenLength < max_len
                /\ \E r \in 1..Len(seq) : ~HasEos(seq[r], target_eos)
                /\ \A r \in 1..Len(seq) : Len(seq'[r]) = GenLength + 1
          /\ BeamLoopIteration =>
                /\ GenLength < max_len
                /\ \E e \in 1..Len(src) : Active(e)
                /\ \A b \in 1..Len(tgt_generation') :
                      \A j \in 1..Len(tgt_generation'[b]) :
                         Len(tgt_generation'[b][j]) = GenLength + 1
          /\ BeamFirstStep =>
                \A b \in 1..Len(tgt_generation') :
                   \A j \in 1..Len(tgt_generation'[b]) :
                      Len(tgt_generation'[b][j]) = 2]_vars
    /\ <>DecodeEnded

\* a beam search that ended at max_len with an example that has no eos
EndedAtMaxLen ==
    /\ pc = "beam_done"
    /\ max_len >= 3
    /\ Len(out[1]) = max_len
    /\ \E e \in 1..Len(out) : ~HasEos(out[e], target_eos)


\* a residual addition of the encoder layer, of the decoder layer, was made
EncoderAdded == pc \in {"enc_ln2", "enc_ff", "enc_done"}

DecoderAdded == pc \in {"dec_cross", "dec_ff", "dec_done"}

\* the decoder layer adds back the input its sublayer had before layer norm
DecoderAddsSublayerInput == DecoderAdded => added = sub_in

\* C29: in pre-norm mode the value the encoder layer and the decoder layer
\* add back after a sublayer is the sublayer's input before layer
\* normalization.
C29_ResidualIsSublayerInput == EncoderAdded \/ DecoderAdded => added = sub_in


\* the call of compute_average_bleu_over_dataset has ended, every batch it
\* saw held one example (the total of a batch is then the score of its
\* example) and there was at least one
EndedOnSingleExampleBatches ==
    /\ pc \in {"bleu_done", "bleu_raised"}
    /\ ref_count = batch_no
    /\ ref_count > 0

\* the returned tuple for the default levels
DefaultLevelsAtTheirOrders ==
    (EndedOnSingleExampleBatches /\ n_gram_levels = DefaultLevels) =>
        /\ pc = "bleu_done"
        /\ Len(avg_bleu) = Len(n_gram_levels)
        /\ \A j \in 1..Len(avg_bleu) :
              avg_bleu[j] = <<ref_sum[n_gram_levels[j]], ref_count>>

\* C30: for every tuple of n-gram levels passed,
\* compute_average_bleu_over_dataset returns one value per level, and entry
\* j is the average of the scores computed at order n_gram_levels[j].
C30_EntryAtItsLevel ==
    EndedOnSingleExampleBatches =>
        /\ pc = "bleu_done"
        /\ Len(avg_bleu) = Len(n_gram_levels)
        /\ \A j \in 1..Len(avg_bleu) :
              avg_bleu[j] = <<ref_sum[n_gram_levels[j]], ref_count>>

====
